---- MODULE Spec2Model ----
(***************************************************************************)
(* Station tracker: the event sync queue (CloudSyncService), the region    *)
(* manager (GeofenceManagerService) and the integrated controller          *)
(* (IntegratedGeofenceService), as state machines.                         *)
(*                                                                         *)
(* JavaScript runs handlers to completion on one thread: a handler is one  *)
(* action up to its first await on the network or on the native bridge,    *)
(* and each resumption after such an await is another action.              *)
(***************************************************************************)
EXTENDS Integers, Sequences, FiniteSets, Bags, TLC

\* ------------------------------------------------------------------ bounds
\* queueGeofenceEvent calls in one run of the process
MaxEvents == 1
\* performSync invocations awaiting their response plus pending setTimeout timers
MaxTasks == 2
\* largest syncErrors value a failing flush may have read
MaxErrors == 9
\* the same, in the specifications that also enqueue and clear
MaxChurnErrors == 1

\* geofence events the plugin delivers in one run
MaxDelivered == 4
\* updateActiveRegions invocations awaiting the plugin at one time
MaxPasses == 1
\* updateActiveRegions invocations awaiting the plugin at one time, where
\* passes are let overlap
MaxOverlap == 2
\* position updates the polling detectors process in one run
MaxChecks == 6
\* initialize invocations awaiting getAllStations at one time
MaxInitCalls == 2
\* watches GeolocationService.startTracking registers in one run
MaxWatches == 2
\* startGeofencing and requestPermissions calls the iOS plugin takes in one run
MaxPluginCalls == 2
\* GeofenceWorker runs under way at one time
MaxWorkers == 2
\* GeofenceWorker runs started in one run of the service
MaxWorkerRuns == 3
\* candidates handed to applyContextFiltering in one call
MaxCandidates == 3
\* stations of the large catalog
CatalogSize == 24
\* startTracking and stopTracking invocations not yet returned at one time
MaxOps == 2
\* updateLocation calls of the optimizer in one run
MaxRecorded == 3

\* ------------------------------------------------------- program constants
MAX_ANDROID_REGIONS == 100
MAX_IOS_REGIONS == 20
NEARBY_RADIUS == 5000
OPTIMIZATION_RADIUS == 10000
\* if (distance < 1000) return
MIN_MOVE_METERS == 1000
MAX_BATCH_SIZE == 50
\* setTimeout(() => this.performSync(), 1000)
CHAIN_DELAY_MS == 1000
\* Math.min(300000, ...)
MAX_BACKOFF_MS == 300000
\* GeofenceOptimizerService: samples kept in memory, samples persisted, samples
\* needed for a movement pattern, samples the speed is averaged over
MAX_LOCATION_HISTORY == 1000
PERSISTED_HISTORY == 200
MIN_PATTERN_SAMPLES == 10
RECENT_LOCATIONS == 50
\* findFrequentAreas: the 0.001 degree grid, in metres of latitude
GRID_METERS == 111
\* TrackingConfiguration.maxRegions, field initialiser and
\* updateConfigurationForDevice
DEFAULT_MAX_REGIONS == 20
\* isInsideStation: the radius of the fallback circle, in metres
FALLBACK_RADIUS == 100

\* localStorage.getItem returns null for a key never written
NoItem == [has |-> FALSE, val |-> <<>>]
\* the value stored by localStorage.setItem(key, JSON.stringify(q))
Item(q) == [has |-> TRUE, val |-> q]

\* an entry JSON.parse throws on, and one it parses to something that is not
\* an array (an object)
Garbled == [has |-> TRUE, form |-> "garbled", val |-> <<>>]
Misshapen == [has |-> TRUE, form |-> "object", val |-> <<>>]
\* the entry holds what the program stored
IsStored(stored) == stored.has /\ "form" \notin DOMAIN stored

\* lengths of the queue found in localStorage when the service is constructed
LoadedLens == {0, 2, 52}
\* the same, in the restored-connectivity scenario: 120 and its neighbours
DrainLens == 100..130

VARIABLES
    \* ---- CloudSyncService
    pendingEvents,   \* this.pendingEvents: sequence of event ids, oldest first
    storage,         \* localStorage[OFFLINE_STORAGE_KEY]: Item(q), or NoItem
    syncStatus,      \* this.syncStatus.value
    navOnline,       \* navigator.onLine
    stable,          \* environment: from now on the device stays online and
                     \* the sink acknowledges every batch
    inflight,        \* bag of performSync invocations awaiting the POST
    timers,          \* bag of pending setTimeout callbacks
    nextId,          \* id of the next event to enter the queue
    nEnqueued,       \* queueGeofenceEvent calls so far
    acked,           \* ids sent in a batch the sink acknowledged
    cleared,         \* ids removed by clearPendingEvents
    \* ---- GeofenceManagerService and the native geofence plugin
    platform,        \* the plugin implementation behind the bridge
    allStations,     \* this.allStations
    currentLocation, \* this.currentLocation.value
    activeRegions,   \* this.activeRegions.value
    storedRegions,   \* localStorage['geofence_regions']
    osRegistered,    \* identifiers the OS monitors
    passes,          \* bag of updateActiveRegions invocations awaiting the plugin
    lastOptLocation, \* where optimizeGeofenceRegions ran last
    selection,       \* last result of optimizeGeofenceSelection, with its inputs
    \* ---- IntegratedGeofenceService
    stations,        \* this.stations
    isInitialized,   \* this.isInitialized
    enableCloudSync, \* this.configuration.enableCloudSync
    configuredMaxRegions, \* this.configuration.maxRegions
    handling,        \* bag of geofenceEvent listener invocations not yet returned
    nDelivered,      \* geofence events the plugin has delivered
    cycleVisits,     \* per station: createVisit calls for the enters delivered
                     \* since its last exit
    \* ---- tracking lifecycle: IntegratedGeofenceService and the plugin
    trackingStatus,  \* this.trackingStatus.value
    authorization,   \* the OS authorization status for location
    osTracking,      \* the plugin's isTracking: location services are running
    bridge,          \* plugin calls of startTracking and stopTracking awaiting
                     \* their answer, oldest first: the plugin resolves a call
                     \* before it takes the next
    reporting,       \* bag of startTracking and stopTracking invocations
                     \* awaiting reportAnalytics, their last statement, or
                     \* ("awaitingUser") a callback of the OS that never comes
    lastCall,        \* which of startTracking and stopTracking was called last;
                     \* "restart" for a startTracking called while the plugin
                     \* had not answered the only stopTracking in flight
    storedConfig,    \* localStorage['tracking_configuration']
    \* ---- GeofenceOptimizerService, location history
    locationHistory, \* this.locationHistory, newest first
    movementPattern, \* this.movementPattern.value
    storedHistory,   \* localStorage['location_history']
    queueIsArray,    \* this.pendingEvents of CloudSyncService is an array
    nRecorded,       \* updateLocation calls of the optimizer so far
    \* ---- polling detection: GeolocationService and the Android GeofenceChecker
    probe,           \* the last call of isInsideStation, with its outcome
    geoStations,     \* GeolocationService.stations
    currentStationVisits, \* the keys of this.currentStationVisits
    geofenceEvents,  \* this.geofenceEvents.value, oldest first
    prefsActiveRegions,   \* SharedPreferences 'active_regions'
    prefsEnteredRegions,  \* SharedPreferences 'entered_regions'
    regionLog,       \* per region identifier: the actions broadcast since the
                     \* region was added, and whether entry and exit were
                     \* both notified all that time
    nChecked,        \* position updates the two detectors have processed
    \* ---- IntegratedGeofenceService.initialize, step by step
    initializing,    \* bag of initialize invocations awaiting getAllStations
    nListeners,      \* 'geofenceEvent' listeners registered with the plugin
                     \* (as many 'locationUpdate' listeners)
    \* ---- GeolocationService, the tracking lifecycle
    watchId,         \* this.watchId, 0 for null
    isTracking,      \* this.isTracking
    osWatches,       \* the watch ids whose callback the OS still calls
    geoCalls,        \* bag of startTracking and stopTracking invocations of
                     \* GeolocationService awaiting a plugin call
    nWatches,        \* watches registered so far
    stopCompleted,   \* a stopTracking call has returned that was made with no
                     \* startTracking call in flight, and startTracking was
                     \* not called since
    \* ---- BackgroundGeofencePlugin (iOS), calls awaiting the user
    pendingCall,     \* the plugin's pendingCall: 0 for nil, or the number of a call
    pluginCalls,     \* the startGeofencing and requestPermissions calls made,
                     \* in order, each with the answers it has received
    prompting,       \* the OS is showing an authorization prompt
    \* ---- Android GeofenceWorker runs
    geofenceWork,    \* bag of checkGeofences calls that have read the
                     \* preferences and not yet saved the entered set
    \* ---- BackgroundGeofenceService
    bgPlatform,      \* the plugin implementation the bridge resolved to
    bgStations,      \* this.stations
    bgIsTracking,    \* this.isTracking.value
    bgActiveRegions, \* the station ids of this.activeRegions
    bgRegistered     \* the station ids of the regions the OS monitors

syncVars == <<pendingEvents, storage, syncStatus, navOnline, stable, inflight,
              timers, nextId, nEnqueued, acked, cleared>>

managerVars == <<platform, allStations, currentLocation, activeRegions,
                 storedRegions, osRegistered, passes, lastOptLocation, selection>>

controllerVars == <<stations, isInitialized, enableCloudSync, configuredMaxRegions,
                    handling, nDelivered, cycleVisits>>

trackingVars == <<trackingStatus, authorization, osTracking, bridge, reporting,
                  lastCall, storedConfig>>

historyVars == <<locationHistory, movementPattern, storedHistory, queueIsArray,
                 nRecorded>>

detectVars == <<probe, geoStations, currentStationVisits, geofenceEvents,
                prefsActiveRegions, prefsEnteredRegions, regionLog, nChecked>>

initVars == <<initializing, nListeners>>

watchVars == <<watchId, isTracking, osWatches, geoCalls, nWatches, stopCompleted>>

pluginVars == <<pendingCall, pluginCalls, prompting>>

workVars == <<geofenceWork>>

bgVars == <<bgPlatform, bgStations, bgIsTracking, bgActiveRegions, bgRegistered>>

\* the services that IntegratedGeofenceService does not call
otherVars == <<watchVars, pluginVars, workVars, bgVars>>

\* the services beside the controller's lifecycle
serviceVars == <<initVars, otherVars>>

\* all that GeolocationService's lifecycle leaves alone
notWatchVars == <<syncVars, managerVars, controllerVars, trackingVars, historyVars,
                  detectVars, initVars, pluginVars, workVars, bgVars>>

\* all that the iOS plugin's permission calls leave alone
notPluginVars == <<syncVars, managerVars, controllerVars, historyVars, detectVars,
                   initVars, watchVars, workVars, bgVars, trackingStatus,
                   bridge, reporting, lastCall, storedConfig>>

\* all that the Android workers leave alone
notWorkVars == <<syncVars, managerVars, controllerVars, trackingVars, historyVars,
                 initVars, watchVars, pluginVars, bgVars, probe, geoStations,
                 currentStationVisits, geofenceEvents, prefsActiveRegions>>

\* all that BackgroundGeofenceService leaves alone
notBgVars == <<syncVars, managerVars, controllerVars, trackingVars, historyVars,
               detectVars, initVars, watchVars, pluginVars, workVars>>

lifeVars == <<trackingVars, historyVars, detectVars, serviceVars>>

vars == <<syncVars, managerVars, controllerVars, lifeVars>>

\* ----------------------------------------------------------------- helpers
Min(a, b) == IF a <= b THEN a ELSE b
Max(a, b) == IF a >= b THEN a ELSE b

RECURSIVE Pow2(_)
Pow2(n) == IF n <= 0 THEN 1 ELSE 2 * Pow2(n - 1)

Range(s) == {s[i] : i \in 1..Len(s)}

Iota(n) == [i \in 1..n |-> i]

\* Array.prototype.slice(0, n) for n >= 0
Slice0(s, n) == SubSeq(s, 1, Min(n, Len(s)))

\* what is left of the array after Array.prototype.splice(0, n)
SpliceRest(s, n) == SubSeq(s, Min(n, Len(s)) + 1, Len(s))

Tasks == BagCardinality(inflight) + BagCardinality(timers)
CanStart == Tasks < MaxTasks

\* --------------------------------------------- state after construction

\* BehaviorSubject<...|null>(null), and a location
NoLocation == [has |-> FALSE, pos |-> 0]
At(p) == [has |-> TRUE, pos |-> p]

\* optimizeGeofenceSelection has not been called
NoSelection == [has |-> FALSE, candidates |-> 0, maxRegions |-> 0, regions |-> <<>>]

\* station ids carried by the geofence events the plugin delivers; id 99
\* belongs to no station of any catalog
EventStationIds == {1, 2, 99}

\* GeofenceManagerService: field initialisers and constructor. The bridge has
\* not resolved the plugin implementation yet, and the OS monitors nothing.
ManagerInit ==
    /\ platform = "unresolved"
    /\ allStations = <<>>
    /\ currentLocation = NoLocation
    /\ activeRegions = <<>>
    /\ storedRegions = NoItem
    /\ osRegistered = {}
    /\ passes = EmptyBag
    /\ lastOptLocation = NoLocation
    /\ selection = NoSelection

\* IntegratedGeofenceService: field initialisers and constructor
ControllerInit ==
    /\ stations = <<>>
    /\ isInitialized = FALSE
    /\ enableCloudSync = TRUE
    /\ configuredMaxRegions = DEFAULT_MAX_REGIONS
    /\ handling = EmptyBag
    /\ nDelivered = 0
    /\ cycleVisits = [s \in EventStationIds |-> 0]

\* this.movementPattern.value: null, or a pattern found by analyzeMovementPattern
NoPattern == [has |-> FALSE, primaryDirection |-> 0, averageSpeed |-> 0,
              frequentAreas |-> {}, timeOfDay |-> "night", dayType |-> "weekday"]

\* IntegratedTrackingStatus, the fields startTracking and stopTracking decide
TrackingStatus(active, native, js, background) ==
    [isActive |-> active, nativeGeofencing |-> native, jsGeofencing |-> js,
     backgroundMode |-> background]

\* TrackingConfiguration, field initialiser
DefaultConfiguration ==
    [useNativeGeofencing |-> TRUE, useFallbackJS |-> TRUE, enableCloudSync |-> TRUE,
     maxRegions |-> DEFAULT_MAX_REGIONS]

\* CLAuthorizationStatus values the plugin tells apart
AuthorizationStatuses == {"notDetermined", "denied", "whenInUse", "always"}

\* IntegratedGeofenceService: the tracking fields after construction, nothing
\* stored; the plugin idle
TrackingInitWith(auths) ==
    /\ trackingStatus = TrackingStatus(FALSE, FALSE, FALSE, FALSE)
    /\ authorization \in auths
    /\ osTracking = FALSE
    /\ bridge = <<>>
    /\ reporting = EmptyBag
    /\ lastCall = "none"
    /\ storedConfig = NoItem

\* LocationContext: position in metres along the meridian, timestamp in seconds
Sample(p, t) == [pos |-> p, t |-> t]

\* mutant: the whole history is persisted
SaveLocationHistoryAll(h) ==
    Item([i \in 1..Len(h) |-> [pos |-> h[i].pos, iso |-> h[i].t]])

\* saveLocationHistory: the first 200 samples, timestamps as ISO strings
SaveLocationHistory(h) ==
    Item([i \in 1..Min(PERSISTED_HISTORY, Len(h)) |->
             [pos |-> h[i].pos, iso |-> h[i].t]])

\* loadLocationHistory: the stored samples with their timestamps parsed back;
\* nothing stored, a parse error or a value without map() leave the history
\* as it is
LoadLocationHistory(stored, history) ==
    IF IsStored(stored)
    THEN [i \in 1..Len(stored.val) |-> Sample(stored.val[i].pos, stored.val[i].iso)]
    ELSE history

\* a history of n samples as n calls of updateLocation leave it, newest first:
\* one report a minute, the device moving 40 m at a time within 120 m
RunHistory(n) == [i \in 1..n |-> Sample(40 * ((n - i) % 4), 60 * (n - i + 1))]

\* GeofenceOptimizerService: field initialisers and constructor
\* (loadLocationHistory), with the entry found in localStorage
HistoryLoaded(stored) ==
    /\ storedHistory = stored
    /\ locationHistory = LoadLocationHistory(stored, <<>>)
    /\ movementPattern = NoPattern
    /\ queueIsArray = TRUE
    /\ nRecorded = 0

\* the same, nothing stored
HistoryInit == HistoryLoaded(NoItem)

\* isInsideStation has not been called
NoProbe == [has |-> FALSE]

\* identifiers of the regions handed to the Android GeofenceChecker
RegionIdentifiers == {1, 2}

\* nothing broadcast for a region
NoLog == [events |-> <<>>, notified |-> FALSE]

\* GeolocationService: field initialisers (loadStations has not answered);
\* the GeofenceChecker's preferences as first read: no region, none entered
DetectInit ==
    /\ probe = NoProbe
    /\ geoStations = <<>>
    /\ currentStationVisits = {}
    /\ geofenceEvents = <<>>
    /\ prefsActiveRegions = <<>>
    /\ prefsEnteredRegions = {}
    /\ regionLog = [id \in RegionIdentifiers |-> NoLog]
    /\ nChecked = 0

\* IntegratedGeofenceService: no initialize call yet, no listener registered
InitCallsInit ==
    /\ initializing = EmptyBag
    /\ nListeners = 0

\* GeolocationService: field initialisers, no call made yet
WatchInit ==
    /\ watchId = 0
    /\ isTracking = FALSE
    /\ osWatches = {}
    /\ geoCalls = EmptyBag
    /\ nWatches = 0
    /\ stopCompleted = FALSE

\* BackgroundGeofencePlugin: no call pending, none made; load() has asked for
\* the authorization, which prompts the user while it is not determined
PluginInit ==
    /\ pendingCall = 0
    /\ pluginCalls = <<>>
    /\ prompting = (authorization = "notDetermined")

\* WorkManager: no GeofenceWorker enqueued
WorkInit == geofenceWork = EmptyBag

\* BackgroundGeofenceService: field initialisers, loadStations not answered
BgInit ==
    /\ bgPlatform = "unresolved"
    /\ bgStations = <<>>
    /\ bgIsTracking = FALSE
    /\ bgActiveRegions = {}
    /\ bgRegistered = {}

\* the services beside the controller's lifecycle, as constructed
ServiceInit == InitCallsInit /\ WatchInit /\ PluginInit /\ WorkInit /\ BgInit

\* the lifecycle, history and detection state of a first run that is left alone
LifeInit ==
    /\ TrackingInitWith({"notDetermined"})
    /\ HistoryInit
    /\ DetectInit
    /\ ServiceInit

\* a step of the sync service alone
SyncOnly(A) == A /\ UNCHANGED <<managerVars, controllerVars, lifeVars>>

\* ------------------------------------------------------- CloudSyncService

\* mutant: the batch is the whole queue, without the MAX_BATCH_SIZE cap
StartFlushWholeQueue(q, st, infl) ==
    IF Len(q) = 0 THEN infl
    ELSE infl (+) SetToBag({[batch |-> q,
                             errs  |-> st.syncErrors,
                             total |-> st.totalEventsSynced]})

\* performSync up to its first await: the early return on an empty queue,
\* the status snapshot and the batch; yields the bag of flushes in flight
StartFlush(q, st, infl) ==
    IF Len(q) = 0 THEN infl
    ELSE infl (+) SetToBag({[batch |-> Slice0(q, Min(MAX_BATCH_SIZE, Len(q))),
                             errs  |-> st.syncErrors,
                             total |-> st.totalEventsSynced]})

\* mutant: the backoff without its 5 minute cap
BackoffDelayUncapped(errs) == Pow2(errs) * 1000

BackoffDelay(errs) == Min(MAX_BACKOFF_MS, Pow2(errs) * 1000)

ChainTimer == [kind |-> "chain", delay |-> CHAIN_DELAY_MS]
BackoffTimer(errs) == [kind |-> "backoff", delay |-> BackoffDelay(errs)]

\* savePendingEvents: localStorage.setItem(key, JSON.stringify(pendingEvents))
SavePendingEvents(q) == Item(q)

\* loadPendingEvents: the stored array, or [] when nothing is stored or
\* JSON.parse throws; a parsed value that is not an array has no elements
LoadPendingEvents(stored) == IF IsStored(stored) THEN stored.val ELSE <<>>

\* the constructor: loadPendingEvents, setupNetworkListeners, startPeriodicSync
SyncInitWith(lens) ==
    /\ storage \in {NoItem} \cup {Item(Iota(n)) : n \in lens \ {0}}
    /\ pendingEvents = LoadPendingEvents(storage)
    /\ navOnline \in BOOLEAN
    /\ stable = FALSE
    /\ syncStatus = [isOnline          |-> navOnline,
                     lastSync          |-> "null",
                     pendingEvents     |-> Len(pendingEvents),
                     syncErrors        |-> 0,
                     totalEventsSynced |-> 0]
    /\ inflight = EmptyBag
    /\ timers = EmptyBag
    /\ nextId = Len(pendingEvents) + 1
    /\ nEnqueued = 0
    /\ acked = {}
    /\ cleared = {}

SyncInit ==
    /\ SyncInitWith(LoadedLens)
    /\ ManagerInit
    /\ ControllerInit
    /\ LifeInit

\* mutant: the event is put at the head of the queue (unshift for push)
QueueGeofenceEventUnshift ==
    /\ navOnline => CanStart
    /\ pendingEvents' = <<nextId>> \o pendingEvents
    /\ syncStatus' = [syncStatus EXCEPT !.pendingEvents = Len(pendingEvents')]
    /\ storage' = Item(pendingEvents')
    /\ inflight' = IF navOnline
                   THEN inflight (+) SetToBag({
                            [batch |-> SubSeq(pendingEvents', 1,
                                              Min(MAX_BATCH_SIZE, Len(pendingEvents'))),
                             errs  |-> syncStatus.syncErrors,
                             total |-> syncStatus.totalEventsSynced]})
                   ELSE inflight
    /\ nextId' = nextId + 1
    /\ nEnqueued' = nEnqueued + 1
    /\ UNCHANGED <<navOnline, stable, timers, acked, cleared>>

\* queueGeofenceEvent: push, status, save, and an un-awaited performSync if online
QueueGeofenceEvent ==
    /\ navOnline => CanStart
    /\ pendingEvents' = Append(pendingEvents, nextId)
    /\ syncStatus' = [syncStatus EXCEPT !.pendingEvents = Len(pendingEvents')]
    /\ storage' = SavePendingEvents(pendingEvents')
    /\ inflight' = IF navOnline THEN StartFlush(pendingEvents', syncStatus', inflight)
                   ELSE inflight
    /\ nextId' = nextId + 1
    /\ nEnqueued' = nEnqueued + 1
    /\ UNCHANGED <<navOnline, stable, timers, acked, cleared>>

\* mutant: a success that never schedules the next batch
SyncSuccessNoChain(f) ==
    /\ BagIn(f, inflight)
    /\ LET rest == SubSeq(pendingEvents, Min(Len(f.batch), Len(pendingEvents)) + 1,
                          Len(pendingEvents))
       IN /\ pendingEvents' = rest
          /\ syncStatus' = [syncStatus EXCEPT
                              !.lastSync = "date",
                              !.pendingEvents = Len(rest),
                              !.totalEventsSynced = f.total + Len(f.batch),
                              !.syncErrors = Max(0, f.errs - 1)]
          /\ storage' = Item(rest)
          /\ acked' = acked \cup Range(f.batch)
    /\ inflight' = inflight (-) SetToBag({f})
    /\ UNCHANGED <<navOnline, stable, timers, nextId, nEnqueued, cleared>>

\* performSync resumed after the POST answered {success: true}
SyncSuccess(f) ==
    /\ BagIn(f, inflight)
    /\ LET batchSize == Len(f.batch)
           rest == SpliceRest(pendingEvents, batchSize)
       IN /\ pendingEvents' = rest
          /\ syncStatus' = [syncStatus EXCEPT
                              !.lastSync = "date",
                              !.pendingEvents = Len(rest),
                              !.totalEventsSynced = f.total + batchSize,
                              !.syncErrors = Max(0, f.errs - 1)]
          /\ storage' = SavePendingEvents(rest)
          /\ timers' = IF Len(rest) > 0 THEN timers (+) SetToBag({ChainTimer})
                       ELSE timers
          /\ acked' = acked \cup Range(f.batch)
    /\ inflight' = inflight (-) SetToBag({f})
    /\ UNCHANGED <<navOnline, stable, nextId, nEnqueued, cleared>>

\* performSync resumed in its catch block: the POST was rejected, timed out
\* after its retries, or answered without success: true
SyncFail(f) ==
    /\ BagIn(f, inflight)
    /\ ~stable
    /\ f.errs <= MaxErrors
    /\ syncStatus' = [syncStatus EXCEPT !.syncErrors = f.errs + 1]
    /\ timers' = timers (+) SetToBag({BackoffTimer(f.errs)})
    /\ inflight' = inflight (-) SetToBag({f})
    /\ UNCHANGED <<pendingEvents, storage, navOnline, stable, nextId, nEnqueued,
                   acked, cleared>>

\* a setTimeout callback runs: the chained next batch calls performSync
\* unconditionally, the backoff retry only if navigator.onLine
TimerFire(t) ==
    /\ BagIn(t, timers)
    /\ timers' = timers (-) SetToBag({t})
    /\ inflight' = IF t.kind = "chain" \/ navOnline
                   THEN StartFlush(pendingEvents, syncStatus, inflight)
                   ELSE inflight
    /\ UNCHANGED <<pendingEvents, storage, syncStatus, navOnline, stable, nextId,
                   nEnqueued, acked, cleared>>

\* mutant: the tick's connectivity test inverted
PeriodicTickOffline ==
    /\ ~navOnline /\ Len(pendingEvents) > 0
    /\ CanStart
    /\ inflight' = StartFlush(pendingEvents, syncStatus, inflight)
    /\ UNCHANGED <<pendingEvents, storage, syncStatus, navOnline, stable, timers,
                   nextId, nEnqueued, acked, cleared>>

\* the interval(SYNC_INTERVAL) subscription of startPeriodicSync
PeriodicTick ==
    /\ navOnline /\ Len(pendingEvents) > 0
    /\ CanStart
    /\ inflight' = StartFlush(pendingEvents, syncStatus, inflight)
    /\ UNCHANGED <<pendingEvents, storage, syncStatus, navOnline, stable, timers,
                   nextId, nEnqueued, acked, cleared>>

\* window 'online' listener
NetworkOnline ==
    /\ ~navOnline
    /\ Len(pendingEvents) > 0 => CanStart
    /\ navOnline' = TRUE
    /\ syncStatus' = [syncStatus EXCEPT !.isOnline = TRUE]
    /\ inflight' = StartFlush(pendingEvents, syncStatus', inflight)
    /\ UNCHANGED <<pendingEvents, storage, stable, timers, nextId, nEnqueued,
                   acked, cleared>>

\* mutant: the 'offline' listener flushes as the 'online' listener does
NetworkOfflineFlushes ==
    /\ navOnline /\ ~stable
    /\ navOnline' = FALSE
    /\ syncStatus' = [syncStatus EXCEPT !.isOnline = FALSE]
    /\ inflight' = StartFlush(pendingEvents, syncStatus', inflight)
    /\ UNCHANGED <<pendingEvents, storage, stable, timers, nextId,
                   nEnqueued, acked, cleared>>

\* window 'offline' listener
NetworkOffline ==
    /\ navOnline /\ ~stable
    /\ navOnline' = FALSE
    /\ syncStatus' = [syncStatus EXCEPT !.isOnline = FALSE]
    /\ UNCHANGED <<pendingEvents, storage, stable, inflight, timers, nextId,
                   nEnqueued, acked, cleared>>

\* forcSync: throws when offline, otherwise performSync
ForcSync ==
    /\ navOnline /\ Len(pendingEvents) > 0
    /\ CanStart
    /\ inflight' = StartFlush(pendingEvents, syncStatus, inflight)
    /\ UNCHANGED <<pendingEvents, storage, syncStatus, navOnline, stable, timers,
                   nextId, nEnqueued, acked, cleared>>

\* clearPendingEvents
ClearPendingEvents ==
    /\ Len(pendingEvents) > 0
    /\ pendingEvents' = <<>>
    /\ syncStatus' = [syncStatus EXCEPT !.pendingEvents = 0]
    /\ storage' = NoItem
    /\ cleared' = cleared \cup Range(pendingEvents)
    /\ UNCHANGED <<navOnline, stable, inflight, timers, nextId, nEnqueued,
                   acked>>

\* environment: connectivity and the sink have recovered for good
Stabilize ==
    /\ navOnline /\ ~stable
    /\ stable' = TRUE
    /\ UNCHANGED <<pendingEvents, storage, syncStatus, navOnline, inflight, timers,
                   nextId, nEnqueued, acked, cleared>>

\* every operation of the service, flush failures kept few
SyncNext ==
    \/ SyncOnly(nEnqueued < MaxEvents /\ QueueGeofenceEvent)
    \/ SyncOnly(\E f \in BagToSet(inflight) : SyncSuccess(f))
    \/ SyncOnly(\E f \in BagToSet(inflight) : f.errs <= MaxChurnErrors /\ SyncFail(f))
    \/ SyncOnly(\E t \in BagToSet(timers) : TimerFire(t))
    \/ SyncOnly(PeriodicTick)
    \/ SyncOnly(NetworkOnline)
    \/ SyncOnly(NetworkOffline)
    \/ SyncOnly(ForcSync)
    \/ SyncOnly(ClearPendingEvents)

SyncSpec == SyncInit /\ [][SyncNext]_vars

\* the failing sink: flushes fail again and again, nothing is enqueued
BackoffNext ==
    \/ SyncOnly(\E f \in BagToSet(inflight) : SyncSuccess(f))
    \/ SyncOnly(\E f \in BagToSet(inflight) : SyncFail(f))
    \/ SyncOnly(\E t \in BagToSet(timers) : TimerFire(t))
    \/ SyncOnly(PeriodicTick)
    \/ SyncOnly(NetworkOnline)
    \/ SyncOnly(NetworkOffline)

BackoffSpec == SyncInit /\ [][BackoffNext]_vars

\* the accepting sink: every POST is answered {success: true}
AcceptNext ==
    \/ SyncOnly(nEnqueued < MaxEvents /\ QueueGeofenceEvent)
    \/ SyncOnly(\E f \in BagToSet(inflight) : SyncSuccess(f))
    \/ SyncOnly(\E t \in BagToSet(timers) : TimerFire(t))
    \/ SyncOnly(PeriodicTick)
    \/ SyncOnly(NetworkOnline)
    \/ SyncOnly(NetworkOffline)
    \/ SyncOnly(ForcSync)

AcceptSpec == SyncInit /\ [][AcceptNext]_vars

\* connectivity and the sink recover for good at some point; timers fire and
\* POSTs are answered (the 30 s timeout bounds every round trip)
LiveNext ==
    \/ SyncOnly(nEnqueued < MaxEvents /\ QueueGeofenceEvent)
    \/ SyncOnly(\E f \in BagToSet(inflight) : SyncSuccess(f))
    \/ SyncOnly(\E f \in BagToSet(inflight) : f.errs <= MaxChurnErrors /\ SyncFail(f))
    \/ SyncOnly(\E t \in BagToSet(timers) : TimerFire(t))
    \/ SyncOnly(PeriodicTick)
    \/ SyncOnly(NetworkOnline)
    \/ SyncOnly(NetworkOffline)
    \/ SyncOnly(Stabilize)

LiveSpec ==
    /\ SyncInit
    /\ [][LiveNext]_vars
    /\ WF_vars(SyncOnly(PeriodicTick))
    /\ WF_vars(SyncOnly(\E f \in BagToSet(inflight) : SyncSuccess(f)))
    /\ WF_vars(SyncOnly(\E t \in BagToSet(timers) : TimerFire(t)))

\* the restored-connectivity scenario: a queue persisted by an earlier run,
\* the device offline at first, an accepting sink, and no periodic tick and
\* no new event while the queue drains
DrainInit ==
    /\ SyncInitWith(DrainLens)
    /\ ~navOnline
    /\ ManagerInit
    /\ ControllerInit
    /\ LifeInit

DrainNext ==
    \/ SyncOnly(NetworkOnline)
    \/ SyncOnly(\E f \in BagToSet(inflight) : SyncSuccess(f))
    \/ SyncOnly(\E t \in BagToSet(timers) : TimerFire(t))

DrainSpec ==
    /\ DrainInit
    /\ [][DrainNext]_vars
    /\ WF_vars(SyncOnly(\E f \in BagToSet(inflight) : SyncSuccess(f)))
    /\ WF_vars(SyncOnly(\E t \in BagToSet(timers) : TimerFire(t)))

\* ------------------------------------------------------ station catalogs

\* Positions are metres along one meridian, so that calculateDistance (the
\* haversine formula) is the absolute difference. A station's line and name
\* are tags standing for a text that contains the substring the code tests.
Station(i, p, l, n) == [id |-> i, pos |-> p, line |-> l, name |-> n]

LineTags == <<"yamanote", "chuo", "sobu", "keihin-tohoku", "tokaido", "other">>
NameTags == <<"shinjuku", "other", "tokyo", "other", "shibuya", "other",
              "shinagawa", "other">>

\* three stations, two of them at the edge of the 10 km optimization radius
SmallCatalog == <<Station(1, 0, "yamanote", "tokyo"),
                  Station(2, 10000, "chuo", "other"),
                  Station(3, -9950, "other", "other")>>

\* more stations within 10 km than the OS lets the app monitor
LargeCatalog == [i \in 1..CatalogSize |->
                    Station(i, 400 * (i - 1), LineTags[(i % 6) + 1],
                            NameTags[(i % 8) + 1])]

Catalogs == {SmallCatalog, LargeCatalog}

\* the plugin implementations the bridge can resolve to
Platforms == {"ios", "web"}

\* ---------------------------------------------- GeofenceManagerService

\* calculateDistance, for two points of the meridian
CalculateDistance(a, b) == IF a >= b THEN a - b ELSE b - a

\* merge of two sequences sorted by key; on equal keys the left one first
RECURSIVE Merge(_, _)
Merge(a, b) ==
    IF a = <<>> THEN b
    ELSE IF b = <<>> THEN a
    ELSE IF a[1].key <= b[1].key THEN <<a[1]>> \o Merge(Tail(a), b)
    ELSE <<b[1]>> \o Merge(a, Tail(b))

RECURSIVE MergeSort(_)
MergeSort(kv) ==
    IF Len(kv) <= 1 THEN kv
    ELSE Merge(MergeSort(SubSeq(kv, 1, Len(kv) \div 2)),
               MergeSort(SubSeq(kv, Len(kv) \div 2 + 1, Len(kv))))

\* Array.prototype.sort((a, b) => a.key - b.key) of the values, each paired
\* with its sort key: ascending and stable
SortByKey(kv) ==
    LET sorted == MergeSort(kv)
    IN [k \in 1..Len(kv) |-> sorted[k].val]

\* optimizeGeofenceRegions: the stations within the optimization radius,
\* nearest first
NearbyStations(loc) ==
    LET near == SelectSeq([i \in 1..Len(allStations) |->
                             [station  |-> allStations[i],
                              distance |-> CalculateDistance(loc,
                                                             allStations[i].pos)]],
                          LAMBDA it : it.distance <= OPTIMIZATION_RADIUS)
    IN SortByKey([i \in 1..Len(near) |-> [key |-> near[i].distance,
                                          val |-> near[i]]])

DistancePriority(d) ==
    IF d <= 500 THEN 100
    ELSE IF d <= 1000 THEN 80
    ELSE IF d <= 2000 THEN 60
    ELSE IF d <= 5000 THEN 40
    ELSE 20

LinePriority(line) ==
    IF line = "yamanote" THEN 30
    ELSE IF line \in {"chuo", "sobu"} THEN 25
    ELSE IF line = "keihin-tohoku" THEN 20
    ELSE IF line = "tokaido" THEN 15
    ELSE 10

MajorStation(name) == name \in {"shinjuku", "tokyo", "shibuya", "shinagawa"}

\* prioritizeStations: the priority of each station, highest first
StationPriority(item) ==
    DistancePriority(item.distance) + LinePriority(item.station.line)
    + (IF MajorStation(item.station.name) THEN 25 ELSE 0)

PrioritizeStations(nearby) ==
    SortByKey([i \in 1..Len(nearby) |->
                  [key |-> 0 - StationPriority(nearby[i]),
                   val |-> [station  |-> nearby[i].station,
                            distance |-> nearby[i].distance,
                            priority |-> StationPriority(nearby[i])]]])

\* getMaxRegions: the platform is the literal 'ios'
GetMaxRegions == MAX_IOS_REGIONS

\* mutant: no truncation to the OS limit
SelectedStationsAll(prioritized) == prioritized

\* prioritizedStations.slice(0, maxRegions)
SelectedStations(prioritized) == Slice0(prioritized, GetMaxRegions)

\* calculateOptimalRadius for a station without polygon data
CalculateOptimalRadius(d) ==
    IF d <= 500 THEN 80
    ELSE IF d <= 1000 THEN 100
    ELSE IF d <= 2000 THEN 120
    ELSE IF d <= 5000 THEN 150
    ELSE 200

\* optimizeGeofenceRegions: the regions of the selected stations
NewRegions(loc) ==
    LET sel == SelectedStations(PrioritizeStations(NearbyStations(loc)))
    IN [i \in 1..Len(sel) |->
           [identifier       |-> sel[i].station.id,
            radius           |-> CalculateOptimalRadius(sel[i].distance),
            priority         |-> sel[i].priority,
            distanceFromUser |-> sel[i].distance]]

RegionIds(regions) == {regions[i].identifier : i \in 1..Len(regions)}

\* saveRegionsToStorage: the serializable fields of each region
SaveRegionsToStorage(regions) ==
    Item([i \in 1..Len(regions) |->
             [identifier |-> regions[i].identifier,
              radius     |-> regions[i].radius,
              stationId  |-> regions[i].identifier,
              priority   |-> regions[i].priority]])

\* mutant: every selected region is added again, registered or not
OptimizeGeofenceRegionsReAdds(loc) ==
    \E newRegions \in {NewRegions(loc)} :
    LET toRemove == RegionIds(activeRegions) \ RegionIds(newRegions)
        toAdd == RegionIds(newRegions)
    IN /\ lastOptLocation' = At(loc)
       /\ osRegistered' = osRegistered
       /\ IF toRemove # {} \/ toAdd # {}
          THEN /\ BagCardinality(passes) < MaxPasses
               /\ passes' = passes (+) SetToBag({
                      [newRegions |-> newRegions,
                       toRemove   |-> toRemove,
                       toAdd      |-> toAdd,
                       stage      |-> IF toRemove # {} THEN "removing" ELSE "adding",
                       failed     |-> FALSE]})
               /\ UNCHANGED <<activeRegions, storedRegions>>
          ELSE /\ activeRegions' = newRegions
               /\ storedRegions' = SaveRegionsToStorage(newRegions)
               /\ passes' = passes

\* optimizeGeofenceRegions(loc) up to the first await of updateActiveRegions:
\* with nothing to remove and nothing to add the pass finishes at once; at
\* most limit passes await the plugin together
OptimizeGeofenceRegionsWithin(loc, limit) ==
    \E newRegions \in {NewRegions(loc)} :
    LET toRemove == RegionIds(activeRegions) \ RegionIds(newRegions)
        toAdd == RegionIds(newRegions) \ RegionIds(activeRegions)
    IN /\ lastOptLocation' = At(loc)
       /\ osRegistered' = osRegistered
       /\ IF toRemove # {} \/ toAdd # {}
          THEN /\ BagCardinality(passes) < limit
               /\ passes' = passes (+) SetToBag({
                      [newRegions |-> newRegions,
                       toRemove   |-> toRemove,
                       toAdd      |-> toAdd,
                       stage      |-> IF toRemove # {} THEN "removing" ELSE "adding",
                       failed     |-> FALSE]})
               /\ UNCHANGED <<activeRegions, storedRegions>>
          ELSE /\ activeRegions' = newRegions
               /\ storedRegions' = SaveRegionsToStorage(newRegions)
               /\ passes' = passes

\* optimizeGeofenceRegions(loc), one pass at a time
OptimizeGeofenceRegions(loc) == OptimizeGeofenceRegionsWithin(loc, MaxPasses)

\* updateLocation(latitude, longitude)
UpdateLocation(p) ==
    /\ isInitialized
    /\ currentLocation' = At(p)
    /\ IF currentLocation.has
          /\ CalculateDistance(currentLocation.pos, p) < MIN_MOVE_METERS
       THEN UNCHANGED <<activeRegions, storedRegions, osRegistered, passes,
                        lastOptLocation>>
       ELSE OptimizeGeofenceRegions(p)
    /\ UNCHANGED <<syncVars, controllerVars, lifeVars, platform, allStations, selection>>

\* updateLocation(latitude, longitude) called while earlier passes may still
\* await the plugin
UpdateLocationWithin(p, limit) ==
    /\ isInitialized
    /\ currentLocation' = At(p)
    /\ IF currentLocation.has
          /\ CalculateDistance(currentLocation.pos, p) < MIN_MOVE_METERS
       THEN UNCHANGED <<activeRegions, storedRegions, osRegistered, passes,
                        lastOptLocation>>
       ELSE OptimizeGeofenceRegionsWithin(p, limit)
    /\ UNCHANGED <<syncVars, controllerVars, lifeVars, platform, allStations, selection>>

\* forceOptimization()
ForceOptimization ==
    /\ isInitialized
    /\ currentLocation.has
    /\ OptimizeGeofenceRegions(currentLocation.pos)
    /\ UNCHANGED <<syncVars, controllerVars, lifeVars, platform, allStations,
                   currentLocation, selection>>

\* what the resolved plugin answers to addGeofences and removeGeofences:
\* the iOS plugin resolves {success: true} or rejects (parameter missing,
\* location manager not initialized); the web implementation resolves
\* {success: false} and registers nothing
PluginOutcomes ==
    IF platform = "ios" THEN {"ok", "reject"}
    ELSE IF platform = "web" THEN {"unsupported"}
    ELSE {}

\* updateActiveRegions, last two statements
CommitRegions(ps) ==
    /\ activeRegions' = ps.newRegions
    /\ storedRegions' = SaveRegionsToStorage(ps.newRegions)
    /\ passes' = passes (-) SetToBag({ps})

\* a rejection leaves updateActiveRegions and is caught by optimizeGeofenceRegions
AbandonPass(ps) ==
    /\ passes' = passes (-) SetToBag({ps})
    /\ UNCHANGED <<activeRegions, storedRegions>>

\* updateActiveRegions resumed after 'await removeGeofences(...)': the
\* resolved value is not looked at
RemoveGeofencesReply(ps, outcome) ==
    /\ BagIn(ps, passes)
    /\ ps.stage = "removing"
    /\ outcome \in PluginOutcomes
    /\ osRegistered' = IF outcome = "ok" THEN osRegistered \ ps.toRemove
                       ELSE osRegistered
    /\ IF outcome = "reject" THEN AbandonPass(ps)
       ELSE IF ps.toAdd # {}
       THEN /\ passes' = (passes (-) SetToBag({ps})) (+) SetToBag({
                   [ps EXCEPT !.stage = "adding", !.failed = (outcome # "ok")]})
            /\ UNCHANGED <<activeRegions, storedRegions>>
       ELSE CommitRegions(ps)
    /\ UNCHANGED <<syncVars, controllerVars, lifeVars, platform, allStations,
                   currentLocation, lastOptLocation, selection>>

\* updateActiveRegions resumed after 'await addGeofences(...)'
AddGeofencesReply(ps, outcome) ==
    /\ BagIn(ps, passes)
    /\ ps.stage = "adding"
    /\ outcome \in PluginOutcomes
    /\ osRegistered' = IF outcome = "ok" THEN osRegistered \cup ps.toAdd
                       ELSE osRegistered
    /\ IF outcome = "reject" THEN AbandonPass(ps) ELSE CommitRegions(ps)
    /\ UNCHANGED <<syncVars, controllerVars, lifeVars, platform, allStations,
                   currentLocation, lastOptLocation, selection>>

\* --------------------------------------------- GeofenceOptimizerService

Pattern(dir, speed, areas, tod, day) ==
    [has |-> TRUE, primaryDirection |-> dir, averageSpeed |-> speed,
     frequentAreas |-> areas, timeOfDay |-> tod, dayType |-> day]

\* no pattern; standing still; walking north on a weekday morning past a
\* frequent area; riding south on a weekend; driving east
Patterns == {NoPattern,
             Pattern(0, 0, {}, "night", "weekday"),
             Pattern(0, 5, {800}, "morning", "weekday"),
             Pattern(180, 12, {}, "afternoon", "weekend"),
             Pattern(90, 25, {}, "evening", "weekday")}

\* the maxRegions arguments tried
MaxRegionsArgs == {0, 2, 20, 30}

\* calculateBearing from one point of the meridian to another: north is 0
CalculateBearing(from, to) == IF to >= from THEN 0 ELSE 180

\* calculateStationScore. The two weighted terms are
\* (10000 - d)/250 and (180 - m)/9; Math.round is taken of the exact sum.
CalculateStationScore(item, loc, pattern) ==
    LET distNum == 9 * Max(0, OPTIMIZATION_RADIUS - item.distance)
        diff == CalculateDistance(CalculateBearing(loc, item.station.pos),
                                  pattern.primaryDirection)
        m == Min(diff, 360 - diff)
        alignNum == IF pattern.has THEN 250 * Max(0, 180 - m) ELSE 0
        frequent == IF pattern.has
                       /\ \E a \in pattern.frequentAreas :
                             CalculateDistance(item.station.pos, a) <= 500
                    THEN 30 ELSE 0
        line == item.station.line
        lineScore == IF line = "yamanote" THEN 25
                     ELSE IF line \in {"chuo", "sobu"} THEN 20
                     ELSE IF line = "keihin-tohoku" THEN 15
                     ELSE IF line = "tokaido" THEN 10
                     ELSE 0
        rush == IF pattern.has
                   /\ pattern.timeOfDay \in {"morning", "evening"}
                   /\ pattern.dayType = "weekday"
                   /\ MajorStation(item.station.name)
                THEN 20 ELSE 0
        fast == IF pattern.has /\ pattern.averageSpeed > 10 THEN 10 ELSE 0
    IN ((2 * (distNum + alignNum) + 2250) \div 4500)
       + frequent + lineScore + rush + fast

\* applyContextFiltering
ApplyContextFiltering(scored, pattern) ==
    IF ~pattern.has THEN scored
    ELSE IF pattern.averageSpeed > 20
    THEN Slice0(SelectSeq(scored, LAMBDA it : it.score >= 50),
                (7 * Len(scored)) \div 10)
    ELSE IF pattern.averageSpeed < 2
    THEN SelectSeq(scored, LAMBDA it : it.distance <= 2000)
    ELSE scored

\* calculateDynamicRadius for a station without polygon data
CalculateDynamicRadius(item, pattern) ==
    LET base == IF item.distance > 5000 THEN 150
                ELSE IF item.distance > 2000 THEN 120
                ELSE IF item.distance < 500 THEN 80
                ELSE 100
        adjusted == IF pattern.has /\ pattern.averageSpeed > 15 THEN base + 50
                    ELSE IF pattern.has /\ pattern.averageSpeed < 1 THEN base - 20
                    ELSE base
    IN Max(adjusted, 50)

\* optimizeGeofenceSelection(nearbyStations, currentLocation, maxRegions),
\* for maxRegions >= 0
OptimizeGeofenceSelection(nearby, loc, pattern, maxRegions) ==
    LET withScore == [i \in 1..Len(nearby) |->
                         [station  |-> nearby[i].station,
                          distance |-> nearby[i].distance,
                          score    |-> CalculateStationScore(nearby[i], loc,
                                                             pattern)]]
        scored == SortByKey([i \in 1..Len(nearby) |->
                                [key |-> 0 - withScore[i].score,
                                 val |-> withScore[i]]])
        selected == Slice0(ApplyContextFiltering(scored, pattern), maxRegions)
    IN [i \in 1..Len(selected) |->
           [identifier       |-> selected[i].station.id,
            radius           |-> CalculateDynamicRadius(selected[i], pattern),
            priority         |-> selected[i].score,
            distanceFromUser |-> selected[i].distance]]

\* a call of optimizeGeofenceSelection with the stations near the current
\* location
SelectRegions(pattern, maxRegions) ==
    /\ isInitialized
    /\ currentLocation.has
    /\ \E nearby \in {NearbyStations(currentLocation.pos)} :
          selection' = [has        |-> TRUE,
                        candidates |-> Len(nearby),
                        maxRegions |-> maxRegions,
                        regions    |-> OptimizeGeofenceSelection(
                                          nearby, currentLocation.pos, pattern,
                                          maxRegions)]
    /\ UNCHANGED <<syncVars, controllerVars, lifeVars, platform, allStations,
                   currentLocation, activeRegions, storedRegions, osRegistered,
                   passes, lastOptLocation>>

\* ------------------------------------------- IntegratedGeofenceService

\* initialize(): load the stations, hand them to the manager, set up the
\* plugin listeners (the bridge resolves the plugin implementation), and
\* updateConfigurationForDevice, which sets maxRegions to 20
Initialize(cat, pf) ==
    /\ ~isInitialized
    /\ stations' = cat
    /\ allStations' = cat
    /\ platform' = pf
    /\ isInitialized' = TRUE
    /\ configuredMaxRegions' = DEFAULT_MAX_REGIONS
    /\ UNCHANGED <<syncVars, lifeVars, currentLocation, activeRegions,
                   storedRegions, osRegistered, passes, lastOptLocation, selection,
                   enableCloudSync, handling, nDelivered, cycleVisits>>

\* this.stations.find(s => s.id === stationId) finds a station
KnownStation(sid) == \E i \in 1..Len(stations) : stations[i].id = sid

\* the 'geofenceEvent' listener up to 'await createVisit(visit)' of
\* handleGeofenceEvent: for an 'enter' of a known station createVisit is
\* called, whatever was delivered before
DeliverGeofenceEvent(sid, action) ==
    /\ isInitialized
    /\ nDelivered < MaxDelivered
    /\ cycleVisits' =
          IF action = "exit" THEN [cycleVisits EXCEPT ![sid] = 0]
          ELSE IF KnownStation(sid) THEN [cycleVisits EXCEPT ![sid] = @ + 1]
          ELSE cycleVisits
    /\ handling' = handling (+) SetToBag({
           [stationId |-> sid, action |-> action,
            visit |-> IF action = "enter" /\ KnownStation(sid) THEN "pending"
                      ELSE "none"]})
    /\ nDelivered' = nDelivered + 1
    /\ UNCHANGED <<syncVars, managerVars, lifeVars, stations, isInitialized, enableCloudSync, configuredMaxRegions>>

\* mutant: a rejected createVisit is not caught and ends the listener
CreateVisitAnsweredUncaught(e, outcome) ==
    /\ BagIn(e, handling)
    /\ e.visit = "pending"
    /\ outcome \in {"ok", "failed"}
    /\ handling' = IF outcome = "failed" THEN handling (-) SetToBag({e})
                   ELSE (handling (-) SetToBag({e}))
                            (+) SetToBag({[e EXCEPT !.visit = outcome]})
    /\ UNCHANGED <<syncVars, managerVars, lifeVars, stations, isInitialized,
                   enableCloudSync, configuredMaxRegions, nDelivered, cycleVisits>>

\* handleGeofenceEvent resumed after 'await createVisit(visit)': a rejection
\* is caught and logged, and the handler goes on to reportAnalytics
CreateVisitAnswered(e, outcome) ==
    /\ BagIn(e, handling)
    /\ e.visit = "pending"
    /\ outcome \in {"ok", "failed"}
    /\ handling' = (handling (-) SetToBag({e}))
                       (+) SetToBag({[e EXCEPT !.visit = outcome]})
    /\ UNCHANGED <<syncVars, managerVars, lifeVars, stations, isInitialized,
                   enableCloudSync, configuredMaxRegions, nDelivered, cycleVisits>>

\* the listener resumed after 'await this.handleGeofenceEvent(event)':
\* the event is queued for cloud sync if enabled
GeofenceEventHandled(e) ==
    /\ BagIn(e, handling)
    /\ e.visit # "pending"
    /\ handling' = handling (-) SetToBag({e})
    /\ IF enableCloudSync THEN QueueGeofenceEvent ELSE UNCHANGED syncVars
    /\ UNCHANGED <<managerVars, lifeVars, stations, isInitialized, enableCloudSync, configuredMaxRegions,
                   nDelivered, cycleVisits>>

\* saveConfiguration: the configuration as JSON
SaveConfiguration(flag, k) == Item([enableCloudSync |-> flag, maxRegions |-> k])

\* loadConfiguration: the stored fields over the defaults; nothing stored or a
\* parse error leave the defaults, and so does a value without those fields
LoadConfiguration(stored) ==
    IF IsStored(stored) THEN stored.val.enableCloudSync
    ELSE DefaultConfiguration.enableCloudSync

\* the same, the maxRegions field
LoadMaxRegions(stored) ==
    IF IsStored(stored) THEN stored.val.maxRegions ELSE DefaultConfiguration.maxRegions

\* updateConfiguration({enableCloudSync: flag}), tracking not active
UpdateConfiguration(flag) ==
    /\ ~trackingStatus.isActive
    /\ enableCloudSync # flag
    /\ enableCloudSync' = flag
    /\ storedConfig' = SaveConfiguration(flag, configuredMaxRegions)
    /\ UNCHANGED <<syncVars, managerVars, historyVars, detectVars, serviceVars, stations, isInitialized,
                   configuredMaxRegions,
                   handling, nDelivered, cycleVisits, trackingStatus,
                   authorization, osTracking, bridge, reporting, lastCall>>

\* updateConfiguration({maxRegions: k}), tracking not active
UpdateMaxRegions(k) ==
    /\ ~trackingStatus.isActive
    /\ configuredMaxRegions' = k
    /\ storedConfig' = SaveConfiguration(enableCloudSync, k)
    /\ UNCHANGED <<syncVars, managerVars, historyVars, detectVars, serviceVars, stations,
                   isInitialized, enableCloudSync, handling, nDelivered,
                   cycleVisits, trackingStatus, authorization, osTracking, bridge,
                   reporting, lastCall>>

\* the controller with the sync service behind it, the sink accepting
ControllerNext ==
    \/ \E cat \in Catalogs, pf \in Platforms : Initialize(cat, pf)
    \/ \E sid \in EventStationIds, action \in {"enter", "exit"} :
          DeliverGeofenceEvent(sid, action)
    \/ \E e \in BagToSet(handling), outcome \in {"ok", "failed"} :
          CreateVisitAnswered(e, outcome)
    \/ \E e \in BagToSet(handling) : GeofenceEventHandled(e)
    \/ \E flag \in BOOLEAN : UpdateConfiguration(flag)
    \/ SyncOnly(\E f \in BagToSet(inflight) : SyncSuccess(f))
    \/ SyncOnly(\E t \in BagToSet(timers) : TimerFire(t))

ControllerSpecInit ==
    /\ SyncInitWith({0})
    /\ ManagerInit
    /\ ControllerInit
    /\ LifeInit

ControllerSpec == ControllerSpecInit /\ [][ControllerNext]_vars

\* station ids of the events delivered while createVisit may fail: a station
\* of the catalog and an unknown one
VisitStationIds == {1, 99}

\* the same controller, the events of two stations only
VisitNext ==
    \/ \E pf \in Platforms : Initialize(SmallCatalog, pf)
    \/ \E sid \in VisitStationIds, action \in {"enter", "exit"} :
          DeliverGeofenceEvent(sid, action)
    \/ \E e \in BagToSet(handling), outcome \in {"ok", "failed"} :
          CreateVisitAnswered(e, outcome)
    \/ \E e \in BagToSet(handling) : GeofenceEventHandled(e)
    \/ \E flag \in BOOLEAN : UpdateConfiguration(flag)
    \/ SyncOnly(\E f \in BagToSet(inflight) : SyncSuccess(f))
    \/ SyncOnly(\E t \in BagToSet(timers) : TimerFire(t))

VisitSpec == ControllerSpecInit /\ [][VisitNext]_vars

\* positions the device reports, in metres along the meridian
Locations == {-200, 0, 900, 6000}

\* the region manager with the plugin behind it, the sync service idle
ManagerNext ==
    \/ \E cat \in Catalogs, pf \in Platforms : Initialize(cat, pf)
    \/ \E p \in Locations : UpdateLocation(p)
    \/ ForceOptimization
    \/ \E ps \in BagToSet(passes), o \in {"ok", "reject", "unsupported"} :
          RemoveGeofencesReply(ps, o)
    \/ \E ps \in BagToSet(passes), o \in {"ok", "reject", "unsupported"} :
          AddGeofencesReply(ps, o)

ManagerSpecInit ==
    /\ SyncInitWith({0})
    /\ ~navOnline
    /\ ManagerInit
    /\ ControllerInit
    /\ LifeInit

ManagerSpec == ManagerSpecInit /\ [][ManagerNext]_vars

\* positions far apart, each with more stations of the large catalog nearby
\* than the OS limit
FarLocations == {0, 6000}

\* the region manager and the optimizer's selection side by side
RegionLimitNext ==
    \/ \E cat \in Catalogs, pf \in Platforms : Initialize(cat, pf)
    \/ \E p \in FarLocations : UpdateLocation(p)
    \/ ForceOptimization
    \/ \E ps \in BagToSet(passes), o \in {"ok", "reject", "unsupported"} :
          RemoveGeofencesReply(ps, o)
    \/ \E ps \in BagToSet(passes), o \in {"ok", "reject", "unsupported"} :
          AddGeofencesReply(ps, o)
    \/ \E pattern \in Patterns, n \in MaxRegionsArgs : SelectRegions(pattern, n)

RegionLimitSpec == ManagerSpecInit /\ [][RegionLimitNext]_vars

\* location updates arriving while the plugin has not answered the passes
\* before them; the iOS plugin answers every call with success
OverlapNext ==
    \/ Initialize(SmallCatalog, "ios")
    \/ \E p \in Locations : UpdateLocationWithin(p, MaxOverlap)
    \/ \E ps \in BagToSet(passes) : RemoveGeofencesReply(ps, "ok")
    \/ \E ps \in BagToSet(passes) : AddGeofencesReply(ps, "ok")

OverlapSpec == ManagerSpecInit /\ [][OverlapNext]_vars

\* the maxRegions values the app configures: the README's battery setting and
\* two around it
MaxRegionsSettings == {5, 10, 30}

\* the region manager of an initialized app whose capacity is configured
CapacityNext ==
    \/ \E pf \in Platforms : Initialize(LargeCatalog, pf)
    \/ \E k \in MaxRegionsSettings : isInitialized /\ UpdateMaxRegions(k)
    \/ \E p \in FarLocations : UpdateLocation(p)
    \/ \E ps \in BagToSet(passes), o \in {"ok", "reject", "unsupported"} :
          RemoveGeofencesReply(ps, o)
    \/ \E ps \in BagToSet(passes), o \in {"ok", "reject", "unsupported"} :
          AddGeofencesReply(ps, o)

CapacitySpec == ManagerSpecInit /\ [][CapacityNext]_vars

\* ------------------------------- GeofenceOptimizerService, location history

\* what the device clock makes of 'now': time of day and day type
Clocks == {<<"morning", "weekday">>, <<"evening", "weekend">>}

\* analyzeMovementPattern, the speed loop: the pair i-1, i of recentLocations
\* counts when the two are less than 10 minutes apart and the speed between
\* them is below 50 m/s
SpeedCounts(recent, i) ==
    LET distance == CalculateDistance(recent[i - 1].pos, recent[i].pos)
        timeDiff == recent[i - 1].t - recent[i].t
    IN timeDiff > 0 /\ timeDiff < 600 /\ distance < 50 * timeDiff

\* the speed of a pair, in mm/s
PairSpeed(recent, i) ==
    (1000 * CalculateDistance(recent[i - 1].pos, recent[i].pos))
        \div (recent[i - 1].t - recent[i].t)

\* totalSpeed over the pairs up to index n
RECURSIVE TotalSpeed(_, _)
TotalSpeed(recent, n) ==
    IF n < 2 THEN 0
    ELSE (IF SpeedCounts(recent, n) THEN PairSpeed(recent, n) ELSE 0)
            + TotalSpeed(recent, n - 1)

\* averageSpeed, in whole metres per second
AverageSpeed(recent) ==
    LET speedSamples == Cardinality({i \in 2..Len(recent) : SpeedCounts(recent, i)})
    IN IF speedSamples > 0
       THEN (TotalSpeed(recent, Len(recent)) \div speedSamples) \div 1000
       ELSE 0

\* calculatePrimaryDirection: atan2 of the summed latitude deltas of the first
\* 20 locations over the summed longitude deltas, which are 0 on a meridian
CalculatePrimaryDirection(locations) ==
    IF Len(locations) < 5 THEN 0
    ELSE LET totalDeltaLat == locations[1].pos - locations[Min(Len(locations), 20)].pos
         IN IF totalDeltaLat > 0 THEN 90
            ELSE IF totalDeltaLat < 0 THEN 270
            ELSE 0

\* Math.round(latitude / gridSize) * gridSize
GridCell(p) == ((2 * p + GRID_METERS) \div (2 * GRID_METERS)) * GRID_METERS

\* findFrequentAreas: the grid cells visited 5 times or more (the positions
\* modelled fall into fewer than 10 cells, the most the code returns)
FindFrequentAreas(locations) ==
    LET cells == {GridCell(locations[i].pos) : i \in 1..Len(locations)}
    IN {c \in cells :
           Cardinality({i \in 1..Len(locations) : GridCell(locations[i].pos) = c}) >= 5}

\* mutant: a pattern needs more than 10 samples
AnalyzeMovementPatternOffByOne(history, pattern, now) ==
    IF Len(history) <= MIN_PATTERN_SAMPLES THEN pattern
    ELSE Pattern(CalculatePrimaryDirection(Slice0(history, RECENT_LOCATIONS)),
                 AverageSpeed(Slice0(history, RECENT_LOCATIONS)),
                 FindFrequentAreas(history),
                 now[1], now[2])

\* analyzeMovementPattern: the value of movementPattern after the call
AnalyzeMovementPattern(history, pattern, now) ==
    IF Len(history) < MIN_PATTERN_SAMPLES THEN pattern
    ELSE Pattern(CalculatePrimaryDirection(Slice0(history, RECENT_LOCATIONS)),
                 AverageSpeed(Slice0(history, RECENT_LOCATIONS)),
                 FindFrequentAreas(history),
                 now[1], now[2])

\* positions the device reports to the optimizer, and seconds from one report
\* to the next
SamplePositions == {0, 900}
SampleGaps == {60, 900}

\* GeofenceOptimizerService.updateLocation(location), the timestamp taken
\* gap seconds after the newest sample's
RecordLocation(p, gap, now) ==
    /\ nRecorded < MaxRecorded
    /\ \E history \in {Slice0(<<Sample(p, gap + (IF locationHistory = <<>> THEN 0
                                                ELSE locationHistory[1].t))>>
                              \o locationHistory,
                              MAX_LOCATION_HISTORY)} :
          /\ locationHistory' = history
          /\ storedHistory' = SaveLocationHistory(history)
          /\ movementPattern' = AnalyzeMovementPattern(history, movementPattern, now)
    /\ nRecorded' = nRecorded + 1
    /\ UNCHANGED <<syncVars, managerVars, controllerVars, trackingVars, detectVars, serviceVars, queueIsArray>>

\* the 5 minute timer of startPeriodicOptimization
PeriodicOptimization(now) ==
    /\ movementPattern' = AnalyzeMovementPattern(locationHistory, movementPattern, now)
    /\ UNCHANGED <<syncVars, managerVars, controllerVars, trackingVars, detectVars, serviceVars,
                   locationHistory, storedHistory, queueIsArray, nRecorded>>

\* ------------------------------------------------ tracking lifecycle

\* startTracking and stopTracking invocations not yet returned
OpsInFlight == Len(bridge) + BagCardinality(reporting)

PluginCall(op, method) == [op |-> op, method |-> method]

\* backgroundLocation as checkPermissions resolves it: the web implementation
\* answers 'not-available', the iOS plugin 'granted' for authorizedAlways only
BackgroundLocation ==
    IF platform = "web" THEN "not-available"
    ELSE IF authorization = "always" THEN "granted"
    ELSE IF authorization = "notDetermined" THEN "prompt"
    ELSE "denied"

\* startTracking() up to 'await BackgroundGeofence.checkPermissions()'
\* (initialized, useNativeGeofencing as configured by default)
StartTracking ==
    /\ isInitialized
    /\ OpsInFlight < MaxOps
    /\ lastCall' = IF /\ lastCall = "stop"
                      /\ bridge = <<PluginCall("stop", "stopGeofencing")>>
                      /\ reporting = EmptyBag
                   THEN "restart" ELSE "start"
    /\ bridge' = Append(bridge, PluginCall("start", "checkPermissions"))
    /\ UNCHANGED <<syncVars, managerVars, controllerVars, historyVars, detectVars, serviceVars,
                   trackingStatus, authorization, osTracking, reporting,
                   storedConfig>>

\* mutant: the fallback publishes isActive and jsGeofencing only, merged into
\* the current status
StartFallbackMerged ==
    /\ trackingStatus' = [trackingStatus EXCEPT !.isActive = TRUE,
                                                !.jsGeofencing = TRUE]
    /\ reporting' = reporting (+) SetToBag({"start"})

\* startTracking without native success: startJSGeofencing() answers true, the
\* status is published and reportAnalytics awaited
StartFallback ==
    /\ trackingStatus' = TrackingStatus(TRUE, FALSE, TRUE, FALSE)
    /\ reporting' = reporting (+) SetToBag({"start"})

\* startTracking resumed after 'await checkPermissions()'
PermissionsChecked ==
    /\ bridge # <<>>
    /\ Head(bridge).method = "checkPermissions"
    /\ bridge' = Append(Tail(bridge),
                        PluginCall("start",
                                   IF BackgroundLocation = "granted"
                                   THEN "startGeofencing"
                                   ELSE "requestPermissions"))
    /\ UNCHANGED <<syncVars, managerVars, controllerVars, historyVars, detectVars, serviceVars,
                   trackingStatus, authorization, osTracking, reporting,
                   lastCall, storedConfig>>

\* the plugin's requestPermissions and startTracking resumed after it. iOS
\* prompts when the status is notDetermined (the user allows use while the
\* app is open, or denies: the call rejects and is caught) or whenInUse (the
\* user upgrades to always, or declines: no callback follows and the call stays
\* pending for good); otherwise, and on the web, the current status is answered
PermissionsRequested(answer) ==
    /\ bridge # <<>>
    /\ Head(bridge).method = "requestPermissions"
    /\ answer \in IF platform = "web" THEN {authorization}
                  ELSE IF authorization = "notDetermined" THEN {"whenInUse", "denied"}
                  ELSE IF authorization = "whenInUse" THEN {"always", "whenInUse"}
                  ELSE {authorization}
    /\ authorization' = answer
    /\ IF platform # "web" /\ authorization = "whenInUse" /\ answer = "whenInUse"
       THEN /\ bridge' = Tail(bridge)
            /\ reporting' = reporting (+) SetToBag({"awaitingUser"})
            /\ UNCHANGED trackingStatus
       ELSE IF platform # "web" /\ answer = "always"
       THEN /\ bridge' = Append(Tail(bridge), PluginCall("start", "startGeofencing"))
            /\ UNCHANGED <<trackingStatus, reporting>>
       ELSE /\ bridge' = Tail(bridge)
            /\ StartFallback
    /\ UNCHANGED <<syncVars, managerVars, controllerVars, historyVars, detectVars, serviceVars,
                   osTracking, lastCall, storedConfig>>

\* the plugin's startGeofencing and startTracking resumed after it: iOS starts
\* the location services, or rejects (authorization denied, location services
\* disabled); the web implementation resolves {success: false}, which is not
\* looked at
GeofencingStarted(outcome) ==
    /\ bridge # <<>>
    /\ Head(bridge).method = "startGeofencing"
    /\ outcome \in IF platform = "web" THEN {"unsupported"}
                   ELSE IF authorization = "always" THEN {"ok", "reject"}
                   ELSE {"reject"}
    /\ bridge' = Tail(bridge)
    /\ osTracking' = IF outcome = "ok" THEN TRUE ELSE osTracking
    /\ IF outcome = "reject" THEN StartFallback
       ELSE /\ trackingStatus' = TrackingStatus(TRUE, TRUE, FALSE, TRUE)
            /\ reporting' = reporting (+) SetToBag({"start"})
    /\ UNCHANGED <<syncVars, managerVars, controllerVars, historyVars, detectVars, serviceVars,
                   authorization, lastCall, storedConfig>>

\* stopTracking(): 'await stopGeofencing()' when native geofencing is on,
\* otherwise straight to the status update and reportAnalytics
StopTracking ==
    /\ OpsInFlight < MaxOps
    /\ lastCall' = "stop"
    /\ IF trackingStatus.nativeGeofencing
       THEN /\ bridge' = Append(bridge, PluginCall("stop", "stopGeofencing"))
            /\ UNCHANGED <<trackingStatus, reporting>>
       ELSE /\ trackingStatus' = TrackingStatus(FALSE, FALSE, FALSE, FALSE)
            /\ reporting' = reporting (+) SetToBag({"stop"})
            /\ bridge' = bridge
    /\ UNCHANGED <<syncVars, managerVars, controllerVars, historyVars, detectVars, serviceVars,
                   authorization, osTracking, storedConfig>>

\* mutant: stopGeofencing answers without stopping the location services
GeofencingStoppedKeepsServices ==
    /\ bridge # <<>>
    /\ Head(bridge).method = "stopGeofencing"
    /\ bridge' = Tail(bridge)
    /\ osRegistered' = IF platform = "ios" THEN {} ELSE osRegistered
    /\ trackingStatus' = TrackingStatus(FALSE, FALSE, FALSE, FALSE)
    /\ reporting' = reporting (+) SetToBag({"stop"})
    /\ UNCHANGED <<syncVars, controllerVars, historyVars, detectVars, serviceVars, platform, allStations,
                   currentLocation, activeRegions, storedRegions, passes,
                   lastOptLocation, selection, authorization, osTracking, lastCall,
                   storedConfig>>

\* the plugin's stopGeofencing (iOS: stopLocationServices stops monitoring
\* every region; web: nothing to stop) and stopTracking resumed after it
GeofencingStopped ==
    /\ bridge # <<>>
    /\ Head(bridge).method = "stopGeofencing"
    /\ bridge' = Tail(bridge)
    /\ osTracking' = IF platform = "ios" THEN FALSE ELSE osTracking
    /\ osRegistered' = IF platform = "ios" THEN {} ELSE osRegistered
    /\ trackingStatus' = TrackingStatus(FALSE, FALSE, FALSE, FALSE)
    /\ reporting' = reporting (+) SetToBag({"stop"})
    /\ UNCHANGED <<syncVars, controllerVars, historyVars, detectVars, serviceVars, platform, allStations,
                   currentLocation, activeRegions, storedRegions, passes,
                   lastOptLocation, selection, authorization, lastCall,
                   storedConfig>>

\* startTracking or stopTracking resumed after 'await reportAnalytics(...)':
\* the call returns
AnalyticsReported(op) ==
    /\ BagIn(op, reporting)
    /\ op \in {"start", "stop"}
    /\ reporting' = reporting (-) SetToBag({op})
    /\ UNCHANGED <<syncVars, managerVars, controllerVars, historyVars, detectVars, serviceVars,
                   trackingStatus, authorization, osTracking, bridge, lastCall,
                   storedConfig>>

\* stopTracking was called last and every call of it has returned
StopReturned ==
    /\ lastCall = "stop"
    /\ \A i \in 1..Len(bridge) : bridge[i].op # "stop"
    /\ ~BagIn("stop", reporting)

\* tracking switched on and off while the region manager follows the device;
\* toggleTracking and updateConfiguration stop it only while it is active
TrackingNext ==
    \/ \E pf \in Platforms : Initialize(SmallCatalog, pf)
    \/ \E p \in FarLocations : UpdateLocation(p)
    \/ \E ps \in BagToSet(passes), o \in {"ok", "reject", "unsupported"} :
          RemoveGeofencesReply(ps, o)
    \/ \E ps \in BagToSet(passes), o \in {"ok", "reject", "unsupported"} :
          AddGeofencesReply(ps, o)
    \/ StartTracking
    \/ trackingStatus.isActive /\ StopTracking
    \/ PermissionsChecked
    \/ \E answer \in AuthorizationStatuses : PermissionsRequested(answer)
    \/ \E outcome \in {"ok", "reject", "unsupported"} : GeofencingStarted(outcome)
    \/ GeofencingStopped
    \/ \E op \in BagToSet(reporting) : AnalyticsReported(op)

TrackingSpecInit ==
    /\ SyncInitWith({0})
    /\ ~navOnline
    /\ ManagerInit
    /\ ControllerInit
    /\ TrackingInitWith(AuthorizationStatuses)
    /\ HistoryInit
    /\ DetectInit
    /\ ServiceInit

TrackingSpec == TrackingSpecInit /\ [][TrackingNext]_vars

\* tracking switched on and off while the timers of the sync service and of
\* the optimizer run; the queue and the history of an earlier run are loaded
StopQuietNext ==
    \/ \E pf \in Platforms : Initialize(SmallCatalog, pf)
    \/ StartTracking
    \/ trackingStatus.isActive /\ StopTracking
    \/ PermissionsChecked
    \/ \E answer \in AuthorizationStatuses : PermissionsRequested(answer)
    \/ \E outcome \in {"ok", "reject", "unsupported"} : GeofencingStarted(outcome)
    \/ GeofencingStopped
    \/ \E op \in BagToSet(reporting) : AnalyticsReported(op)
    \/ SyncOnly(PeriodicTick)
    \/ SyncOnly(\E f \in BagToSet(inflight) : SyncSuccess(f))
    \/ SyncOnly(\E f \in BagToSet(inflight) : f.errs <= MaxChurnErrors /\ SyncFail(f))
    \/ SyncOnly(\E t \in BagToSet(timers) : TimerFire(t))
    \/ \E now \in Clocks : PeriodicOptimization(now)

StopQuietInit ==
    /\ SyncInitWith({2})
    /\ ManagerInit
    /\ ControllerInit
    /\ TrackingInitWith({"always", "denied"})
    /\ HistoryLoaded(SaveLocationHistory(RunHistory(MIN_PATTERN_SAMPLES)))
    /\ DetectInit
    /\ ServiceInit

StopQuietSpec == StopQuietInit /\ [][StopQuietNext]_vars

\* ------------------------------------------------------ process restart

\* the app is killed and started again: every service is constructed anew
\* from localStorage, callbacks and plugin calls in flight are gone, and the
\* regions the OS monitors stay registered
ProcessRestart ==
    /\ pendingEvents' = LoadPendingEvents(storage)
    /\ queueIsArray' = (storage # Misshapen)
    /\ syncStatus' = [isOnline          |-> navOnline,
                      lastSync          |-> "null",
                      pendingEvents     |-> Len(pendingEvents'),
                      syncErrors        |-> 0,
                      totalEventsSynced |-> 0]
    /\ inflight' = EmptyBag
    /\ timers' = EmptyBag
    /\ UNCHANGED <<storage, navOnline, stable, nextId, nEnqueued, acked, cleared>>
    /\ platform' = "unresolved"
    /\ allStations' = <<>>
    /\ currentLocation' = NoLocation
    /\ activeRegions' = <<>>
    /\ passes' = EmptyBag
    /\ lastOptLocation' = NoLocation
    /\ selection' = NoSelection
    /\ UNCHANGED <<storedRegions, osRegistered>>
    /\ stations' = <<>>
    /\ isInitialized' = FALSE
    /\ enableCloudSync' = LoadConfiguration(storedConfig)
    /\ configuredMaxRegions' = LoadMaxRegions(storedConfig)
    /\ handling' = EmptyBag
    /\ UNCHANGED <<nDelivered, cycleVisits>>
    /\ trackingStatus' = TrackingStatus(FALSE, FALSE, FALSE, FALSE)
    /\ osTracking' = FALSE
    /\ bridge' = <<>>
    /\ reporting' = EmptyBag
    /\ lastCall' = "none"
    /\ UNCHANGED <<authorization, storedConfig>>
    /\ locationHistory' = LoadLocationHistory(storedHistory, <<>>)
    /\ movementPattern' = NoPattern
    /\ UNCHANGED <<storedHistory, nRecorded>>
    /\ probe' = NoProbe
    /\ geoStations' = <<>>
    /\ currentStationVisits' = {}
    /\ geofenceEvents' = <<>>
    /\ UNCHANGED <<prefsActiveRegions, prefsEnteredRegions, regionLog, nChecked,
                   serviceVars>>

\* the region manager across restarts of the app
RestartNext ==
    \/ \E pf \in Platforms : Initialize(SmallCatalog, pf)
    \/ \E p \in Locations : UpdateLocation(p)
    \/ \E ps \in BagToSet(passes), o \in {"ok", "reject", "unsupported"} :
          RemoveGeofencesReply(ps, o)
    \/ \E ps \in BagToSet(passes), o \in {"ok", "reject", "unsupported"} :
          AddGeofencesReply(ps, o)
    \/ ForceOptimization
    \/ ProcessRestart

RestartSpec == ManagerSpecInit /\ [][RestartNext]_vars

\* history lengths a run has reached: empty, short of a pattern, short of
\* what is persisted, short of what is kept
RunLens == {0, 8, 198, 998}

\* the optimizer some way into a run: n samples recorded, the first 200
\* persisted, a pattern published if there were enough of them
LongRunInit ==
    /\ SyncInitWith({0})
    /\ ManagerInit
    /\ ControllerInit
    /\ TrackingInitWith({"notDetermined"})
    /\ \E n \in RunLens :
          /\ locationHistory = RunHistory(n)
          /\ storedHistory =
                IF n = 0 THEN NoItem
                ELSE Item([i \in 1..Min(PERSISTED_HISTORY, n) |->
                              [pos |-> RunHistory(n)[i].pos,
                               iso |-> RunHistory(n)[i].t]])
          /\ movementPattern = AnalyzeMovementPattern(RunHistory(n), NoPattern,
                                                      <<"morning", "weekday">>)
    /\ queueIsArray = TRUE
    /\ nRecorded = 0
    /\ DetectInit
    /\ ServiceInit

\* the optimizer fed with locations, its timer running, the app restarted
\* now and then
HistoryNext ==
    \/ \E p \in SamplePositions, gap \in SampleGaps, now \in Clocks :
          RecordLocation(p, gap, now)
    \/ \E now \in Clocks : PeriodicOptimization(now)
    \/ ProcessRestart

HistorySpec == LongRunInit /\ [][HistoryNext]_vars

\* nine samples at one place, a quarter of an hour apart, newest first: one
\* short of a pattern, and no pair of them counts for the speed
StaleHistory == [i \in 1..(MIN_PATTERN_SAMPLES - 1) |->
                    Sample(0, 900 * (MIN_PATTERN_SAMPLES - i))]

\* positions reported next, and seconds from one report to the next: a
\* minute, ten minutes to the second, a quarter of an hour
SpeedPositions == {0, 6000}
SpeedGaps == {60, 600, 900}

\* the optimizer with the stale history loaded
SpeedInit ==
    /\ SyncInitWith({0})
    /\ ManagerInit
    /\ ControllerInit
    /\ TrackingInitWith({"notDetermined"})
    /\ HistoryLoaded(SaveLocationHistory(StaleHistory))
    /\ DetectInit
    /\ ServiceInit

\* the optimizer fed with locations at those intervals, its timer running
SpeedNext ==
    \/ \E p \in SpeedPositions, gap \in SpeedGaps, now \in Clocks :
          RecordLocation(p, gap, now)
    \/ \E now \in Clocks : PeriodicOptimization(now)

SpeedSpec == SpeedInit /\ [][SpeedNext]_vars

\* the persisted entries
StorageKeys == {"pending_geofence_events", "location_history", "tracking_configuration"}

\* something other than the app overwrites a persisted entry
StorageCorrupted(key, entry) ==
    /\ entry \in {Garbled, Misshapen}
    /\ storage' = IF key = "pending_geofence_events" THEN entry ELSE storage
    /\ storedHistory' = IF key = "location_history" THEN entry ELSE storedHistory
    /\ storedConfig' = IF key = "tracking_configuration" THEN entry ELSE storedConfig
    /\ UNCHANGED <<pendingEvents, syncStatus, navOnline, stable, inflight, timers,
                   nextId, nEnqueued, acked, cleared, managerVars, controllerVars,
                   trackingStatus, authorization, osTracking, bridge, reporting,
                   lastCall, locationHistory, movementPattern, queueIsArray,
                   nRecorded, detectVars, serviceVars>>

\* queueGeofenceEvent on the queue as loadPendingEvents left it: when the
\* parsed entry was not an array, this.pendingEvents.push throws and nothing
\* after it runs
QueueGeofenceEventLoaded ==
    IF queueIsArray
    THEN QueueGeofenceEvent /\ UNCHANGED <<managerVars, controllerVars, lifeVars>>
    ELSE /\ nEnqueued' = nEnqueued + 1
         /\ UNCHANGED <<pendingEvents, storage, syncStatus, navOnline, stable,
                        inflight, timers, nextId, acked, cleared, managerVars,
                        controllerVars, lifeVars>>

\* the stores of the three services across restarts, their entries
\* overwritten now and then
CorruptNext ==
    \/ \E key \in StorageKeys, entry \in {Garbled, Misshapen} :
          StorageCorrupted(key, entry)
    \/ ProcessRestart
    \/ nEnqueued < MaxEvents /\ QueueGeofenceEventLoaded
    \/ \E p \in SamplePositions, gap \in SampleGaps, now \in Clocks :
          RecordLocation(p, gap, now)
    \/ \E flag \in BOOLEAN : UpdateConfiguration(flag)
    \/ SyncOnly(\E f \in BagToSet(inflight) : SyncSuccess(f))

CorruptInit ==
    /\ SyncInitWith({0, 2})
    /\ ManagerInit
    /\ ControllerInit
    /\ LifeInit

CorruptSpec == CorruptInit /\ [][CorruptNext]_vars

\* ------------------- IntegratedGeofenceService.initialize, step by step

\* initialize() up to 'await getAllStations().toPromise()': the call returns
\* at once when isInitialized is set, and nothing records a call in progress
InitializeCalled ==
    /\ ~isInitialized
    /\ BagCardinality(initializing) < MaxInitCalls
    /\ initializing' = initializing (+) SetToBag({"loading"})
    /\ UNCHANGED <<syncVars, managerVars, controllerVars, trackingVars,
                   historyVars, detectVars, otherVars, nListeners>>

\* initialize() resumed with the stations: geofenceManager.initialize,
\* setupNativeListeners (two addListener calls), updateConfigurationForDevice
\* and isInitialized = true; the awaits in between wait for nothing but the
\* plugin's answer to checkPermissions
StationsLoaded(cat, pf) ==
    /\ BagIn("loading", initializing)
    /\ initializing' = initializing (-) SetToBag({"loading"})
    /\ stations' = cat
    /\ allStations' = cat
    /\ platform' = IF platform = "unresolved" THEN pf ELSE platform
    /\ nListeners' = nListeners + 1
    /\ configuredMaxRegions' = DEFAULT_MAX_REGIONS
    /\ isInitialized' = TRUE
    /\ UNCHANGED <<syncVars, trackingVars, historyVars, detectVars, otherVars,
                   currentLocation, activeRegions, storedRegions, osRegistered,
                   passes, lastOptLocation, selection, enableCloudSync, handling,
                   nDelivered, cycleVisits>>

\* getAllStations rejected: initialize logs and rethrows
StationsFailed ==
    /\ BagIn("loading", initializing)
    /\ initializing' = initializing (-) SetToBag({"loading"})
    /\ UNCHANGED <<syncVars, managerVars, controllerVars, trackingVars,
                   historyVars, detectVars, otherVars, nListeners>>

\* the plugin notifies 'geofenceEvent': every listener registered runs, each
\* up to 'await createVisit(visit)' of handleGeofenceEvent
OsGeofenceEvent(sid, action) ==
    /\ nListeners > 0
    /\ nDelivered < MaxDelivered
    /\ cycleVisits' =
          IF action = "exit" THEN [cycleVisits EXCEPT ![sid] = 0]
          ELSE IF KnownStation(sid)
          THEN [cycleVisits EXCEPT ![sid] = @ + nListeners]
          ELSE cycleVisits
    /\ handling' = handling (+)
           [e \in {[stationId |-> sid, action |-> action,
                    visit |-> IF action = "enter" /\ KnownStation(sid)
                              THEN "pending" ELSE "none"]} |-> nListeners]
    /\ nDelivered' = nDelivered + 1
    /\ UNCHANGED <<syncVars, managerVars, lifeVars, stations, isInitialized,
                   enableCloudSync, configuredMaxRegions>>

\* the home page and startTracking both calling initialize, then the plugin
\* delivering events
InitNext ==
    \/ InitializeCalled
    \/ \E pf \in Platforms : StationsLoaded(SmallCatalog, pf)
    \/ StationsFailed
    \/ \E sid \in VisitStationIds, action \in {"enter", "exit"} :
          OsGeofenceEvent(sid, action)
    \/ \E e \in BagToSet(handling), outcome \in {"ok", "failed"} :
          CreateVisitAnswered(e, outcome)
    \/ \E e \in BagToSet(handling) : GeofenceEventHandled(e)
    \/ SyncOnly(\E f \in BagToSet(inflight) : SyncSuccess(f))
    \/ SyncOnly(\E t \in BagToSet(timers) : TimerFire(t))

InitSpec == ControllerSpecInit /\ [][InitNext]_vars

\* startTracking() before the service is initialized, up to the
\* 'await getAllStations()' of the initialize() it calls
StartTrackingUninitialized ==
    /\ ~isInitialized
    /\ BagCardinality(initializing) < MaxInitCalls
    /\ initializing' = initializing (+) SetToBag({"startTracking"})
    /\ lastCall' = "start"
    /\ UNCHANGED <<syncVars, managerVars, controllerVars, historyVars, detectVars, otherVars,
                   nListeners, trackingStatus, authorization, osTracking, bridge,
                   reporting, storedConfig>>

\* getAllStations answers the initialize() that startTracking awaits: the rest
\* of initialize, then startTracking up to 'await checkPermissions()'
StartTrackingInitialized(cat, pf) ==
    /\ BagIn("startTracking", initializing)
    /\ OpsInFlight < MaxOps
    /\ initializing' = initializing (-) SetToBag({"startTracking"})
    /\ stations' = cat
    /\ allStations' = cat
    /\ platform' = IF platform = "unresolved" THEN pf ELSE platform
    /\ nListeners' = nListeners + 1
    /\ configuredMaxRegions' = DEFAULT_MAX_REGIONS
    /\ isInitialized' = TRUE
    /\ bridge' = Append(bridge, PluginCall("start", "checkPermissions"))
    /\ UNCHANGED <<syncVars, historyVars, detectVars, otherVars, currentLocation,
                   activeRegions, storedRegions, osRegistered, passes,
                   lastOptLocation, selection, enableCloudSync, handling,
                   nDelivered, cycleVisits, trackingStatus, authorization,
                   osTracking, reporting, lastCall, storedConfig>>

\* getAllStations fails: initialize rethrows, and startTracking, which awaits
\* it before its try block, rejects without publishing a status
StartTrackingFailed ==
    /\ BagIn("startTracking", initializing)
    /\ initializing' = initializing (-) SetToBag({"startTracking"})
    /\ UNCHANGED <<syncVars, managerVars, controllerVars, historyVars, detectVars, otherVars,
                   nListeners, trackingStatus, authorization, osTracking, bridge,
                   reporting, lastCall, storedConfig>>

\* the home page initializing the service and the user switching tracking on
\* and off, before and after the stations are loaded
StatusNext ==
    \/ InitializeCalled
    \/ \E pf \in Platforms : StationsLoaded(SmallCatalog, pf)
    \/ StationsFailed
    \/ StartTrackingUninitialized
    \/ \E pf \in Platforms : StartTrackingInitialized(SmallCatalog, pf)
    \/ StartTrackingFailed
    \/ StartTracking
    \/ trackingStatus.isActive /\ StopTracking
    \/ PermissionsChecked
    \/ \E answer \in AuthorizationStatuses : PermissionsRequested(answer)
    \/ \E outcome \in {"ok", "reject", "unsupported"} : GeofencingStarted(outcome)
    \/ GeofencingStopped
    \/ \E op \in BagToSet(reporting) : AnalyticsReported(op)

StatusSpec == TrackingSpecInit /\ [][StatusNext]_vars

\* ------------------------------- GeolocationService, the polling detector

\* a position in metres east (longitude) and north (latitude) of a local origin
Point(x, y) == [x |-> x, y |-> y]

\* calculateDistance (the haversine formula) squared, for two points of the
\* local plane
DistanceSquared(a, b) == (a.x - b.x) * (a.x - b.x) + (a.y - b.y) * (a.y - b.y)

\* a vertex [lng, lat] of a ring, and an element of the ring that is null
Vertex(x, y) == [isNull |-> FALSE, x |-> x, y |-> y]
NullVertex == [isNull |-> TRUE, x |-> 0, y |-> 0]

\* Station.polygon_data: the text, and the rings it holds when it is the JSON
\* of a Polygon with coordinates
PolygonData(text, rings) == [text |-> text, rings |-> rings]

\* a square of the given half side around a centre, closed as GeoJSON rings are
Square(c, h) == <<Vertex(c.x - h, c.y - h), Vertex(c.x + h, c.y - h),
                  Vertex(c.x + h, c.y + h), Vertex(c.x - h, c.y + h),
                  Vertex(c.x - h, c.y - h)>>

\* the texts that are not the JSON of a Polygon with coordinates[0]: no
\* value, the empty string, a text that is not JSON, the JSON null, a number,
\* a geometry of another type, a Polygon with no coordinates member, a
\* Polygon whose coordinates are the empty array
RinglessTexts == {"undefined", "empty", "garbled", "null", "number", "Point",
                  "PolygonNoCoordinates", "PolygonNoRings"}

\* JSON.parse(text): it throws a SyntaxError on what is not JSON
JsonParse(data) ==
    IF data.text \in {"undefined", "empty", "garbled"}
    THEN [threw |-> TRUE, isObject |-> FALSE, type |-> "none",
          coordinates |-> <<>>]
    ELSE [threw       |-> FALSE,
          isObject    |-> data.text \notin {"null", "number"},
          isNull      |-> data.text = "null",
          type        |-> IF data.text \in {"Polygon", "PolygonNoCoordinates",
                                            "PolygonNoRings"} THEN "Polygon"
                          ELSE IF data.text = "Point" THEN "Point"
                          ELSE "none",
          coordinates |-> IF data.text = "Polygon" THEN data.rings ELSE <<>>]

\* pointInPolygon, the test of one edge from vertex j to vertex i:
\* ((yi > y) !== (yj > y)) && (x < (xj - xi) * (y - yi) / (yj - yi) + xi),
\* the division cleared
EdgeCrossed(point, vi, vj) ==
    /\ (vi.y > point.y) # (vj.y > point.y)
    /\ IF vj.y > vi.y
       THEN (point.x - vi.x) * (vj.y - vi.y) < (vj.x - vi.x) * (point.y - vi.y)
       ELSE (point.x - vi.x) * (vj.y - vi.y) > (vj.x - vi.x) * (point.y - vi.y)

\* pointInPolygon: even-odd ray casting over the ring; reading a coordinate of
\* a null element throws a TypeError
PointInPolygon(point, ring) ==
    IF \E i \in 1..Len(ring) : ring[i].isNull
    THEN [threw |-> TRUE, inside |-> FALSE]
    ELSE [threw  |-> FALSE,
          inside |-> Cardinality({i \in 1..Len(ring) :
                                     EdgeCrossed(point, ring[i],
                                                 ring[IF i = 1 THEN Len(ring)
                                                      ELSE i - 1])}) % 2 = 1]

\* the distance fallback of isInsideStation
WithinFallback(point, station) ==
    DistanceSquared(point, station.at) <= FALLBACK_RADIUS * FALLBACK_RADIUS

\* mutant: the catch block answers false
IsInsideStationCatchFalse(point, station) ==
    LET polygon == JsonParse(station.polygon_data)
    IN IF polygon.threw \/ polygon.isNull
       THEN [threw |-> FALSE, inside |-> FALSE]
       ELSE IF polygon.type = "Polygon" /\ Len(polygon.coordinates) > 0
            THEN IF PointInPolygon(point, polygon.coordinates[1]).threw
                 THEN [threw |-> FALSE, inside |-> FALSE]
                 ELSE PointInPolygon(point, polygon.coordinates[1])
            ELSE [threw |-> FALSE, inside |-> WithinFallback(point, station)]

\* isInsideStation(point, station): whether the call threw, and its answer.
\* Everything is inside the try: a SyntaxError of JSON.parse, the TypeError of
\* reading .type of null and a TypeError of pointInPolygon all end in the
\* catch block, which answers by distance.
IsInsideStation(point, station) ==
    LET polygon == JsonParse(station.polygon_data)
    IN IF polygon.threw \/ polygon.isNull
       THEN [threw |-> FALSE, inside |-> WithinFallback(point, station)]
       ELSE IF polygon.type = "Polygon" /\ Len(polygon.coordinates) > 0
            THEN IF PointInPolygon(point, polygon.coordinates[1]).threw
                 THEN [threw |-> FALSE, inside |-> WithinFallback(point, station)]
                 ELSE PointInPolygon(point, polygon.coordinates[1])
            ELSE [threw |-> FALSE, inside |-> WithinFallback(point, station)]

\* a station of the detector's catalog
WatchedStation(id, at, data) == [id |-> id, at |-> at, polygon_data |-> data]

\* the polygon data tried for a station at c: every ringless text, a square
\* of 50 m half side around the station, the same square 400 m to the east,
\* a ring with no vertex, and a ring with a null element
PolygonDataAt(c) ==
    {PolygonData(t, <<>>) : t \in RinglessTexts}
    \cup {PolygonData("Polygon", <<Square(c, 50)>>),
          PolygonData("Polygon", <<Square(Point(c.x + 400, c.y), 50)>>),
          PolygonData("Polygon", <<<<>>>>),
          PolygonData("Polygon", <<<<Vertex(c.x, c.y), NullVertex>>>>)}

\* where the stations probed lie, and the offsets of the points probed from
\* the station: the centre, inside the square, outside the square within
\* 100 m, at 100 m exactly (60, 80), and beyond
ProbeCentres == {Point(0, 0), Point(300, -200)}
ProbeOffsets == {0, 40, 60, 80, 100, 101, 400}

\* a call of isInsideStation
IsInsideStationCalled(point, station) ==
    /\ probe' = [has |-> TRUE, point |-> point, station |-> station,
                 result |-> IsInsideStation(point, station)]
    /\ UNCHANGED <<syncVars, managerVars, controllerVars, trackingVars,
                   historyVars, serviceVars, geoStations, currentStationVisits,
                   geofenceEvents, prefsActiveRegions, prefsEnteredRegions,
                   regionLog, nChecked>>

\* the stations probed: every polygon data at every centre
ProbedStations ==
    UNION {{WatchedStation(1, c, data) : data \in PolygonDataAt(c)} :
              c \in ProbeCentres}

InsideNext ==
    \E station \in ProbedStations, dx \in ProbeOffsets, dy \in ProbeOffsets :
        IsInsideStationCalled(Point(station.at.x + dx, station.at.y - dy),
                              station)

InsideSpec == ControllerSpecInit /\ [][InsideNext]_vars

\* the stations getAllStations answers: station 1 with a polygon of 50 m half
\* side, station 2, 120 m to the east, without polygon data
WatchedStations ==
    <<WatchedStation(1, Point(0, 0),
                     PolygonData("Polygon", <<Square(Point(0, 0), 50)>>)),
      WatchedStation(2, Point(120, 0), PolygonData("undefined", <<>>))>>

\* positions the device reports: inside both stations, inside station 2 only
\* (outside the polygon of station 1, though within 100 m of it), far from both
PolledPositions == {Point(40, 0), Point(60, 0), Point(1000, 0)}

\* emitGeofenceEvent: the event appended to the geofenceEvents subject
StationEvent(sid, type) == [station |-> sid, type |-> type]

\* mutant: every position inside a station emits 'enter'
CheckStationNoWasInside(currentPos, station, visits) ==
    LET isInside == IsInsideStation(currentPos, station).inside
        wasInside == station.id \in visits
    IN IF isInside
       THEN [visits |-> visits \cup {station.id},
             events |-> <<StationEvent(station.id, "enter")>>]
       ELSE IF ~isInside /\ wasInside
       THEN [visits |-> visits \ {station.id},
             events |-> <<StationEvent(station.id, "exit")>>]
       ELSE [visits |-> visits, events |-> <<>>]

\* checkGeofences, the body of the loop for one station: the keys of
\* currentStationVisits after it and the events it emits
CheckStation(currentPos, station, visits) ==
    LET isInside == IsInsideStation(currentPos, station).inside
        wasInside == station.id \in visits
    IN IF isInside /\ ~wasInside
       THEN [visits |-> visits \cup {station.id},
             events |-> <<StationEvent(station.id, "enter")>>]
       ELSE IF ~isInside /\ wasInside
       THEN [visits |-> visits \ {station.id},
             events |-> <<StationEvent(station.id, "exit")>>]
       ELSE [visits |-> visits, events |-> <<>>]

\* checkGeofences, the loop over this.stations from station i on
RECURSIVE CheckStationsFrom(_, _, _, _)
CheckStationsFrom(i, currentPos, visits, events) ==
    IF i > Len(geoStations) THEN [visits |-> visits, events |-> events]
    ELSE LET step == CheckStation(currentPos, geoStations[i], visits)
         IN CheckStationsFrom(i + 1, currentPos, step.visits,
                              events \o step.events)

\* loadStations, called by the constructor, once getAllStations has answered
LoadStations(list) ==
    /\ geoStations = <<>>
    /\ geoStations' = list
    /\ UNCHANGED <<syncVars, managerVars, controllerVars, trackingVars,
                   historyVars, serviceVars, probe, currentStationVisits, geofenceEvents,
                   prefsActiveRegions, prefsEnteredRegions, regionLog, nChecked>>

\* the watchPosition callback: checkGeofences(coords)
CheckGeofences(currentPos) ==
    /\ nChecked < MaxChecks
    /\ \E done \in {CheckStationsFrom(1, currentPos, currentStationVisits,
                                       geofenceEvents)} :
          /\ currentStationVisits' = done.visits
          /\ geofenceEvents' = done.events
    /\ nChecked' = nChecked + 1
    /\ UNCHANGED <<syncVars, managerVars, controllerVars, trackingVars,
                   historyVars, serviceVars, probe, geoStations, prefsActiveRegions,
                   prefsEnteredRegions, regionLog>>

\* ----------------------------------- GeofenceChecker, the Android detector

\* GeofenceRegion: identifier, centre, radius and the two notification flags
GeofenceRegion(id, at, radius, onEntry, onExit) ==
    [identifier |-> id, at |-> at, radius |-> radius,
     notifyOnEntry |-> onEntry, notifyOnExit |-> onExit]

\* the regions handed to addRegion: region 1 and region 2 with the default
\* flags, and region 1 with the exit notification off
RegionChoices ==
    {GeofenceRegion(1, Point(0, 0), 50, TRUE, TRUE),
     GeofenceRegion(1, Point(0, 0), 50, TRUE, FALSE),
     GeofenceRegion(2, Point(120, 0), 80, TRUE, TRUE)}

\* isInsideRegion: distanceBetween(...) <= region.radius
IsInsideRegion(pos, region) ==
    DistanceSquared(pos, region.at) <= region.radius * region.radius

\* checkGeofences, the body of the loop for one region: whether the region
\* joins currentlyEntered, and the actions broadcast for it
CheckRegion(pos, region, previouslyEntered) ==
    LET isInside == IsInsideRegion(pos, region)
        wasInside == region.identifier \in previouslyEntered
    IN [inside |-> isInside,
        events |-> IF isInside
                   THEN IF ~wasInside /\ region.notifyOnEntry THEN <<"enter">>
                        ELSE <<>>
                   ELSE IF wasInside /\ region.notifyOnExit THEN <<"exit">>
                   ELSE <<>>]

\* the identifiers of the regions of a list
ActiveIdentifiers(regions) == {regions[i].identifier : i \in 1..Len(regions)}

\* the actions broadcast for an identifier by one checkGeofences call, the
\* regions taken in the order of the list
RECURSIVE BroadcastFor(_, _, _, _)
BroadcastFor(id, pos, regions, previouslyEntered) ==
    IF regions = <<>> THEN <<>>
    ELSE (IF regions[1].identifier = id
          THEN CheckRegion(pos, regions[1], previouslyEntered).events
          ELSE <<>>)
         \o BroadcastFor(id, pos, Tail(regions), previouslyEntered)

\* addRegion: a region of the same identifier is replaced, the new region goes
\* last. The log of an identifier starts afresh when it was not monitored,
\* and records whether both notifications were on ever since.
AddRegion(region) ==
    /\ prefsActiveRegions' =
          Append(SelectSeq(prefsActiveRegions,
                           LAMBDA r : r.identifier # region.identifier), region)
    /\ regionLog' =
          [regionLog EXCEPT ![region.identifier] =
              IF region.identifier \in ActiveIdentifiers(prefsActiveRegions)
              THEN [@ EXCEPT !.notified =
                        @ /\ region.notifyOnEntry /\ region.notifyOnExit]
              ELSE [events   |-> <<>>,
                    notified |-> region.notifyOnEntry /\ region.notifyOnExit]]
    /\ UNCHANGED <<syncVars, managerVars, controllerVars, trackingVars,
                   historyVars, serviceVars, probe, geoStations, currentStationVisits,
                   geofenceEvents, prefsEnteredRegions, nChecked>>

\* removeRegion: the region leaves the list and the entered set
RemoveRegion(id) ==
    /\ prefsActiveRegions' =
          SelectSeq(prefsActiveRegions, LAMBDA r : r.identifier # id)
    /\ prefsEnteredRegions' = prefsEnteredRegions \ {id}
    /\ UNCHANGED <<syncVars, managerVars, controllerVars, trackingVars,
                   historyVars, serviceVars, probe, geoStations, currentStationVisits,
                   geofenceEvents, regionLog, nChecked>>

\* GeofenceChecker.checkGeofences(latitude, longitude, accuracy, timestamp),
\* called by the location worker
AndroidCheckGeofences(pos) ==
    /\ nChecked < MaxChecks
    /\ prefsEnteredRegions' =
          {prefsActiveRegions[i].identifier :
              i \in {k \in 1..Len(prefsActiveRegions) :
                        CheckRegion(pos, prefsActiveRegions[k],
                                    prefsEnteredRegions).inside}}
    /\ regionLog' =
          [id \in RegionIdentifiers |->
              [regionLog[id] EXCEPT !.events =
                  @ \o BroadcastFor(id, pos, prefsActiveRegions,
                                    prefsEnteredRegions)]]
    /\ nChecked' = nChecked + 1
    /\ UNCHANGED <<syncVars, managerVars, controllerVars, trackingVars,
                   historyVars, serviceVars, probe, geoStations, currentStationVisits,
                   geofenceEvents, prefsActiveRegions>>

\* the two polling detectors fed with positions, one update after another
DetectNext ==
    \/ LoadStations(WatchedStations)
    \/ \E pos \in PolledPositions : CheckGeofences(pos)
    \/ \E region \in RegionChoices : AddRegion(region)
    \/ \E id \in RegionIdentifiers : RemoveRegion(id)
    \/ \E pos \in PolledPositions : AndroidCheckGeofences(pos)

DetectSpec == ControllerSpecInit /\ [][DetectNext]_vars

\* ------------------------------ Android GeofenceWorker runs, step by step

\* a checkGeofences call between its reads and its save: the position, the
\* active regions and the entered set it has read
GeofenceCheck(pos, regions, previouslyEntered) ==
    [pos |-> pos, regions |-> regions, previouslyEntered |-> previouslyEntered]

\* a GeofenceWorker, enqueued by scheduleGeofenceCheck for a location update,
\* starts on a thread of WorkManager's executor: checkGeofences reads the
\* active regions and the entered set
WorkerReads(pos) ==
    /\ nChecked < MaxWorkerRuns
    /\ BagCardinality(geofenceWork) < MaxWorkers
    /\ geofenceWork' =
          geofenceWork (+) SetToBag({GeofenceCheck(pos, prefsActiveRegions,
                                                   prefsEnteredRegions)})
    /\ nChecked' = nChecked + 1
    /\ UNCHANGED <<notWorkVars, prefsEnteredRegions, regionLog>>

\* the rest of checkGeofences: the loop broadcasts against the entered set
\* read before, saveEnteredRegions stores the regions the position is inside
WorkerSaves(w) ==
    /\ BagIn(w, geofenceWork)
    /\ geofenceWork' = geofenceWork (-) SetToBag({w})
    /\ prefsEnteredRegions' =
          {w.regions[i].identifier :
              i \in {k \in 1..Len(w.regions) :
                        CheckRegion(w.pos, w.regions[k], w.previouslyEntered).inside}}
    /\ regionLog' =
          [id \in RegionIdentifiers |->
              [regionLog[id] EXCEPT !.events =
                  @ \o BroadcastFor(id, w.pos, w.regions, w.previouslyEntered)]]
    /\ UNCHANGED <<notWorkVars, nChecked>>

\* location updates of the foreground service, each checked by a worker of
\* its own, while regions are added and removed
WorkNext ==
    \/ \E region \in RegionChoices : AddRegion(region)
    \/ \E id \in RegionIdentifiers : RemoveRegion(id)
    \/ \E pos \in PolledPositions : WorkerReads(pos)
    \/ \E w \in BagToSet(geofenceWork) : WorkerSaves(w)

WorkSpec == ControllerSpecInit /\ [][WorkNext]_vars

\* ------------------------------------------- BackgroundGeofenceService

\* the native plugin implementations
NativePlatforms == {"ios", "android"}

\* where the device is when the service looks for nearby stations: each
\* position has one station of the small catalog within 5 km
BgLocations == {0, 9000, -9000}

\* loadStations, called by the constructor, once getAllStations has answered;
\* setupEventListeners has resolved the plugin implementation
BgLoadStations(cat, pf) ==
    /\ bgPlatform = "unresolved"
    /\ bgPlatform' = pf
    /\ bgStations' = cat
    /\ UNCHANGED <<notBgVars, bgIsTracking, bgActiveRegions, bgRegistered>>

\* setupNearbyGeofences: the ids of the stations within 5 km of the location
NearbyStationIds(location) ==
    {bgStations[i].id :
        i \in {k \in 1..Len(bgStations) :
                  CalculateDistance(location, bgStations[k].pos) <= NEARBY_RADIUS}}

\* setupNearbyGeofences(location) from the filter on: addGeofences registers
\* the nearby regions with the OS beside those it monitors already, and
\* this.activeRegions becomes the nearby regions; nothing nearby, or a
\* rejection (caught), leaves both as they were
SetupNearbyGeofences(location, added) ==
    IF NearbyStationIds(location) # {} /\ added
    THEN /\ bgRegistered' = bgRegistered \cup NearbyStationIds(location)
         /\ bgActiveRegions' = NearbyStationIds(location)
    ELSE UNCHANGED <<bgRegistered, bgActiveRegions>>

\* startNativeGeofencing(): the permission is granted or not; with it
\* startGeofencing, then setupNearbyGeofences() at the position
\* getCurrentLocation answers
StartNativeGeofencing(granted, location, added) ==
    /\ bgPlatform # "unresolved"
    /\ IF granted
       THEN /\ SetupNearbyGeofences(location, added)
            /\ bgIsTracking' = TRUE
       ELSE /\ bgIsTracking' = FALSE
            /\ UNCHANGED <<bgRegistered, bgActiveRegions>>
    /\ UNCHANGED <<notBgVars, bgPlatform, bgStations>>

\* updateGeofencesForLocation(latitude, longitude)
UpdateGeofencesForLocation(location, added) ==
    /\ bgPlatform # "unresolved"
    /\ SetupNearbyGeofences(location, added)
    /\ UNCHANGED <<notBgVars, bgPlatform, bgStations, bgIsTracking>>

\* stopNativeGeofencing(): stopGeofencing (the iOS plugin stops monitoring
\* every region, the Android plugin none), then removeGeofences for the
\* identifiers of this.activeRegions; a rejection of removeGeofences is caught
\* before this.activeRegions and isTracking are reset
StopNativeGeofencing(removed) ==
    /\ bgPlatform # "unresolved"
    /\ LET monitored == IF bgPlatform = "ios" THEN {} ELSE bgRegistered
       IN IF bgActiveRegions = {}
          THEN /\ bgRegistered' = monitored
               /\ bgIsTracking' = FALSE
               /\ UNCHANGED bgActiveRegions
          ELSE IF removed
          THEN /\ bgRegistered' = monitored \ bgActiveRegions
               /\ bgActiveRegions' = {}
               /\ bgIsTracking' = FALSE
          ELSE /\ bgRegistered' = monitored
               /\ UNCHANGED <<bgActiveRegions, bgIsTracking>>
    /\ UNCHANGED <<notBgVars, bgPlatform, bgStations>>

\* native geofencing started, moved and stopped
BgNext ==
    \/ \E cat \in Catalogs, pf \in NativePlatforms : BgLoadStations(cat, pf)
    \/ \E granted \in BOOLEAN, location \in BgLocations, added \in BOOLEAN :
          StartNativeGeofencing(granted, location, added)
    \/ \E location \in BgLocations, added \in BOOLEAN :
          UpdateGeofencesForLocation(location, added)
    \/ \E removed \in BOOLEAN : StopNativeGeofencing(removed)

BgSpec == ControllerSpecInit /\ [][BgNext]_vars

\* ------------------------- scoring, filtering and radius, call by call

\* distances from the user, in metres: the thresholds of the two services,
\* a multiple of 250 m beyond each, and the optimization radius and beyond
ProbedDistances == {0, 250, 500, 750, 1000, 1250, 2000, 2250, 5000, 5250,
                    8000, 10000, 12000}

\* candidates north of the user: a major station of a major line and a
\* station of neither kind
ScoreCandidates ==
    UNION {{[station |-> Station(1, d, "yamanote", "tokyo"), distance |-> d],
            [station |-> Station(2, d, "other", "other"), distance |-> d]} :
              d \in ProbedDistances}

\* calculateStationScore, the distance term 'distanceScore * 0.4' with
\* distanceScore = max(0, (10000 - distance) / 10000 * 100): whole for a
\* distance that is a multiple of 250 m
WeightedDistanceScore(distance) == Max(0, OPTIMIZATION_RADIUS - distance) \div 250

\* a call of one of the functions: the distance and pattern it was given, the
\* distance term of the score, the list filtered, and what it returned
ScoreProbe(call, distance, pattern, term, value, candidates, kept) ==
    [has |-> TRUE, call |-> call, distance |-> distance, pattern |-> pattern,
     term |-> term, value |-> value, candidates |-> candidates, kept |-> kept]

\* all that a call of a pure function leaves alone
notProbeVars == <<syncVars, managerVars, controllerVars, trackingVars, historyVars,
                  serviceVars, geoStations, currentStationVisits, geofenceEvents,
                  prefsActiveRegions, prefsEnteredRegions, regionLog, nChecked>>

\* GeofenceOptimizerService.calculateStationScore(item, currentLocation, pattern)
CalculateStationScoreCalled(item, pattern) ==
    /\ probe' = ScoreProbe("calculateStationScore", item.distance, pattern,
                           WeightedDistanceScore(item.distance),
                           CalculateStationScore(item, 0, pattern), <<>>, <<>>)
    /\ UNCHANGED notProbeVars

\* GeofenceManagerService.prioritizeStations, for one station; the manager
\* knows no movement pattern
PrioritizeStationsCalled(item) ==
    /\ probe' = ScoreProbe("prioritizeStations", item.distance, NoPattern,
                           DistancePriority(item.distance),
                           StationPriority(item), <<>>, <<>>)
    /\ UNCHANGED notProbeVars

\* the scores of the candidates handed to applyContextFiltering
CandidateScores == {40, 50, 60}

\* candidate lists as optimizeGeofenceSelection sorts them, best score first;
\* candidate i is station i, i km away
ScoredLists ==
    UNION {{[i \in 1..n |-> [station  |-> Station(i, 1000 * i, "other", "other"),
                             distance |-> 1000 * i,
                             score    |-> f[i]]] :
               f \in {g \in [1..n -> CandidateScores] :
                         \A i \in 1..(n - 1) : g[i] >= g[i + 1]}} :
              n \in 0..MaxCandidates}

\* GeofenceOptimizerService.applyContextFiltering(stations, pattern)
ApplyContextFilteringCalled(scored, pattern) ==
    /\ probe' = ScoreProbe("applyContextFiltering", 0, pattern, 0, 0, scored,
                           ApplyContextFiltering(scored, pattern))
    /\ UNCHANGED notProbeVars

\* GeofenceOptimizerService.calculateDynamicRadius(item, pattern), the
\* station without polygon data
CalculateDynamicRadiusCalled(item, pattern) ==
    /\ probe' = ScoreProbe("calculateDynamicRadius", item.distance, pattern, 0,
                           CalculateDynamicRadius(item, pattern), <<>>, <<>>)
    /\ UNCHANGED notProbeVars

\* GeofenceManagerService.calculateOptimalRadius(station, distanceFromUser),
\* the station without polygon data
CalculateOptimalRadiusCalled(item) ==
    /\ probe' = ScoreProbe("calculateOptimalRadius", item.distance, NoPattern, 0,
                           CalculateOptimalRadius(item.distance), <<>>, <<>>)
    /\ UNCHANGED notProbeVars

\* the scoring functions of the optimizer and of the manager, called with
\* every candidate and pattern
ScoreNext ==
    \/ \E item \in ScoreCandidates, pattern \in Patterns :
          CalculateStationScoreCalled(item, pattern)
    \/ \E item \in ScoreCandidates : PrioritizeStationsCalled(item)
    \/ \E scored \in ScoredLists, pattern \in Patterns :
          ApplyContextFilteringCalled(scored, pattern)
    \/ \E item \in ScoreCandidates, pattern \in Patterns :
          CalculateDynamicRadiusCalled(item, pattern)
    \/ \E item \in ScoreCandidates : CalculateOptimalRadiusCalled(item)

ScoreSpec == ControllerSpecInit /\ [][ScoreNext]_vars

\* ------------------------------- GeolocationService, the tracking lifecycle

\* a startTracking or stopTracking invocation awaiting the plugin call 'at';
\* a stopTracking invocation carries the id it passed to clearWatch, and
\* whether every startTracking call had returned when it was made and none
\* was made since
GeoCall(op, at, id, clean) == [op |-> op, at |-> at, id |-> id, clean |-> clean]

StartsInFlight == {c \in BagToSet(geoCalls) : c.op = "start"}

\* the invocations in flight once startTracking is called again
RECURSIVE Unclean(_)
Unclean(calls) ==
    IF calls = EmptyBag THEN EmptyBag
    ELSE LET c == CHOOSE x \in BagToSet(calls) : TRUE
             n == CopiesIn(c, calls)
         IN [e \in {[c EXCEPT !.clean = FALSE]} |-> n]
               (+) Unclean([e \in BagToSet(calls) \ {c} |-> calls[e]])

\* startTracking() up to 'await Geolocation.requestPermissions()'
GeoStartTracking ==
    /\ nWatches + BagCardinality(geoCalls) < MaxWatches + 1
    /\ geoCalls' = Unclean(geoCalls)
                      (+) SetToBag({GeoCall("start", "requestPermissions", 0, FALSE)})
    /\ stopCompleted' = FALSE
    /\ UNCHANGED <<notWatchVars, watchId, isTracking, osWatches, nWatches>>

\* startTracking resumed after requestPermissions: a permission other than
\* 'granted' throws; otherwise BackgroundMode.enable is awaited (its failure
\* is caught), isTracking set and watchPosition called
GeoPermissionsAnswered(c, location) ==
    /\ BagIn(c, geoCalls)
    /\ c.at = "requestPermissions"
    /\ IF location = "granted"
       THEN /\ isTracking' = TRUE
            /\ geoCalls' = (geoCalls (-) SetToBag({c}))
                              (+) SetToBag({[c EXCEPT !.at = "watchPosition"]})
       ELSE /\ isTracking' = FALSE
            /\ geoCalls' = geoCalls (-) SetToBag({c})
    /\ UNCHANGED <<notWatchVars, watchId, osWatches, nWatches, stopCompleted>>

\* watchPosition answers the id of a new watch, which startTracking stores in
\* this.watchId, or rejects
WatchPositionAnswered(c, outcome) ==
    /\ BagIn(c, geoCalls)
    /\ c.at = "watchPosition"
    /\ geoCalls' = geoCalls (-) SetToBag({c})
    /\ IF outcome = "ok"
       THEN /\ nWatches' = nWatches + 1
            /\ osWatches' = osWatches \cup {nWatches + 1}
            /\ watchId' = nWatches + 1
            /\ UNCHANGED isTracking
       ELSE /\ isTracking' = FALSE
            /\ UNCHANGED <<nWatches, osWatches, watchId>>
    /\ UNCHANGED <<notWatchVars, stopCompleted>>

\* stopTracking() up to 'await clearWatch({id: this.watchId})', or, without a
\* watch id, up to 'await BackgroundMode.disable()'
GeoStopTracking ==
    /\ nWatches + BagCardinality(geoCalls) < MaxWatches + 1
    /\ geoCalls' = geoCalls (+) SetToBag({
          IF watchId # 0
          THEN GeoCall("stop", "clearWatch", watchId, StartsInFlight = {})
          ELSE GeoCall("stop", "disable", 0, StartsInFlight = {})})
    /\ UNCHANGED <<notWatchVars, watchId, isTracking, osWatches, nWatches,
                   stopCompleted>>

\* clearWatch answers: the OS drops the watch of that id, this.watchId = null
WatchCleared(c) ==
    /\ BagIn(c, geoCalls)
    /\ c.at = "clearWatch"
    /\ osWatches' = osWatches \ {c.id}
    /\ watchId' = 0
    /\ geoCalls' = (geoCalls (-) SetToBag({c}))
                      (+) SetToBag({[c EXCEPT !.at = "disable"]})
    /\ UNCHANGED <<notWatchVars, isTracking, nWatches, stopCompleted>>

\* BackgroundMode.disable answers or fails: stopTracking clears isTracking
\* and returns
BackgroundDisabled(c) ==
    /\ BagIn(c, geoCalls)
    /\ c.at = "disable"
    /\ isTracking' = FALSE
    /\ geoCalls' = geoCalls (-) SetToBag({c})
    /\ stopCompleted' = (stopCompleted \/ c.clean)
    /\ UNCHANGED <<notWatchVars, watchId, osWatches, nWatches>>

\* the OS calls the callback of a watch with a position
WatchedPosition(w, pos) ==
    /\ w \in osWatches
    /\ CheckGeofences(pos)

\* GeolocationService started and stopped while the OS reports positions
WatchNext ==
    \/ LoadStations(WatchedStations)
    \/ GeoStartTracking
    \/ \E c \in BagToSet(geoCalls), location \in {"granted", "denied"} :
          GeoPermissionsAnswered(c, location)
    \/ \E c \in BagToSet(geoCalls), outcome \in {"ok", "reject"} :
          WatchPositionAnswered(c, outcome)
    \/ GeoStopTracking
    \/ \E c \in BagToSet(geoCalls) : WatchCleared(c)
    \/ \E c \in BagToSet(geoCalls) : BackgroundDisabled(c)
    \/ \E w \in osWatches, pos \in PolledPositions : WatchedPosition(w, pos)

WatchSpec == ControllerSpecInit /\ [][WatchNext]_vars

\* --------------------- BackgroundGeofencePlugin (iOS), the permission calls

\* a CAPPluginCall with the number of times it was resolved or rejected
PluginCallMade(method, answers) == [method |-> method, answers |-> answers]

\* call.resolve or call.reject on call i
Answered(calls, i) == [calls EXCEPT ![i].answers = @ + 1]

\* startGeofencing(call): rejected when the authorization is denied, kept as
\* pendingCall while the OS asks the user, resolved once the location
\* services are started (the location services of the device are enabled)
PluginStartGeofencing ==
    /\ Len(pluginCalls) < MaxPluginCalls
    /\ LET i == Len(pluginCalls) + 1
           calls == Append(pluginCalls, PluginCallMade("startGeofencing", 0))
       IN IF authorization = "denied"
          THEN /\ pluginCalls' = Answered(calls, i)
               /\ UNCHANGED <<pendingCall, prompting, osTracking>>
          ELSE IF authorization \in {"notDetermined", "whenInUse"}
          THEN /\ pluginCalls' = calls
               /\ pendingCall' = i
               /\ prompting' = TRUE
               /\ UNCHANGED osTracking
          ELSE /\ pluginCalls' = Answered(calls, i)
               /\ osTracking' = TRUE
               /\ UNCHANGED <<pendingCall, prompting>>
    /\ UNCHANGED <<notPluginVars, authorization>>

\* requestPermissions(call): the call becomes pendingCall; the OS asks the
\* user, or, the authorization being always or denied, checkPermissions
\* resolves the call at once
PluginRequestPermissions ==
    /\ Len(pluginCalls) < MaxPluginCalls
    /\ LET i == Len(pluginCalls) + 1
           calls == Append(pluginCalls, PluginCallMade("requestPermissions", 0))
       IN /\ pendingCall' = i
          /\ IF authorization \in {"notDetermined", "whenInUse"}
             THEN /\ pluginCalls' = calls
                  /\ prompting' = TRUE
             ELSE /\ pluginCalls' = Answered(calls, i)
                  /\ UNCHANGED prompting
    /\ UNCHANGED <<notPluginVars, authorization, osTracking>>

\* locationManager(_:didChangeAuthorization:): the pending call, if any, is
\* taken; always or whenInUse resolve it (startGeofencing starts the location
\* services first), denied rejects it, notDetermined answers nothing
DidChangeAuthorization(status) ==
    /\ authorization' = status
    /\ IF pendingCall = 0
       THEN UNCHANGED <<pendingCall, pluginCalls, osTracking>>
       ELSE /\ pendingCall' = 0
            /\ pluginCalls' = IF status = "notDetermined" THEN pluginCalls
                              ELSE Answered(pluginCalls, pendingCall)
            /\ osTracking' =
                  IF /\ status \in {"always", "whenInUse"}
                     /\ pluginCalls[pendingCall].method = "startGeofencing"
                  THEN TRUE ELSE osTracking

\* the user answers the prompt: allows use while the app is open or denies
\* when nothing was determined, upgrades to always or keeps whenInUse. The
\* delegate is told of a status that changed
PromptAnswered(status) ==
    /\ prompting
    /\ prompting' = FALSE
    /\ status \in IF authorization = "notDetermined" THEN {"whenInUse", "denied"}
                  ELSE IF authorization = "whenInUse" THEN {"always", "whenInUse"}
                  ELSE {authorization}
    /\ IF status # authorization THEN DidChangeAuthorization(status)
       ELSE UNCHANGED <<authorization, pendingCall, pluginCalls, osTracking>>
    /\ UNCHANGED notPluginVars

\* the user changes the authorization in the Settings app
SettingsChanged(status) ==
    /\ ~prompting
    /\ authorization # "notDetermined"
    /\ status \in {"denied", "whenInUse", "always"} \ {authorization}
    /\ DidChangeAuthorization(status)
    /\ UNCHANGED <<notPluginVars, prompting>>

\* the app calling the plugin while the user answers prompts and visits the
\* Settings app
PluginNext ==
    \/ PluginStartGeofencing
    \/ PluginRequestPermissions
    \/ \E status \in AuthorizationStatuses : PromptAnswered(status)
    \/ \E status \in AuthorizationStatuses : SettingsChanged(status)

PluginSpec == TrackingSpecInit /\ [][PluginNext]_vars

\* the user answers every prompt in the end
PluginLiveSpec ==
    PluginSpec /\ WF_vars(\E status \in AuthorizationStatuses : PromptAnswered(status))

\* ------------------------------------------------------------------ claims

\* C1: an event leaves the pending queue only if it was in a batch the sink
\* acknowledged or was removed by clearPendingEvents: every event that ever
\* entered the queue is still queued, acknowledged or cleared.
C1_NoUnackedLoss ==
    \A id \in 1..(nextId - 1) :
        id \in Range(pendingEvents) \/ id \in acked \/ id \in cleared

\* C2: once N events were enqueued and every flush has succeeded, with the
\* queue drained and no flush or timer pending, totalEventsSynced has grown by
\* exactly N (it starts at 0).
C2_DrainedTotal ==
    (Len(pendingEvents) = 0 /\ inflight = EmptyBag /\ timers = EmptyBag)
        => syncStatus.totalEventsSynced = nextId - 1

\* C3: a failing performSync leaves the queue (and its persisted copy) as it
\* is and schedules exactly one retry timer, of min(300, 2^errors) seconds,
\* errors being the syncErrors value the flush read when it started: one less
\* than the value it publishes.
C3_FailKeepsQueueOneRetry ==
    [][\A f \in BagToSet(inflight) :
          SyncFail(f) =>
            /\ pendingEvents' = pendingEvents
            /\ storage' = storage
            /\ syncStatus'.pendingEvents = syncStatus.pendingEvents
            /\ syncStatus'.syncErrors = f.errs + 1
            /\ timers' = timers (+) SetToBag({
                   [kind  |-> "backoff",
                    delay |-> 1000 * Min(300, Pow2(syncStatus'.syncErrors - 1))]})
      ]_vars

\* a retry capped at 300 s is pending beside an untouched queue
C3_Witness ==
    /\ Len(pendingEvents) > 0
    /\ syncStatus.syncErrors > 9
    /\ \E t \in BagToSet(timers) : t.kind = "backoff" /\ t.delay = 300000

C5_EventualDrain == stable ~> (Len(pendingEvents) = 0)

\* the recovery came after a failed flush, with events still queued
C5_Witness ==
    /\ stable
    /\ syncStatus.syncErrors > 0
    /\ Len(pendingEvents) > 0
    /\ inflight = EmptyBag

C7_OneVisitPerCycle == \A sid \in EventStationIds : cycleVisits[sid] <= 1

\* C8: the active region set never has more than maxRegions entries, and
\* optimizeGeofenceSelection returns at most maxRegions regions, whatever
\* the catalog size.
C8_AtMostMaxRegions ==
    /\ Len(activeRegions) <= GetMaxRegions
    /\ \A ps \in BagToSet(passes) : Len(ps.newRegions) <= GetMaxRegions
    /\ selection.has => Len(selection.regions) <= selection.maxRegions

\* the limit is reached with more stations nearby, by the manager and by
\* the optimizer
C8_Witness ==
    /\ Len(allStations) > GetMaxRegions
    /\ Len(activeRegions) = GetMaxRegions
    /\ selection.has
    /\ selection.candidates > selection.maxRegions
    /\ selection.maxRegions > 0
    /\ Len(selection.regions) = selection.maxRegions

\* identifiers listed in localStorage['geofence_regions']
StoredIds == {storedRegions.val[i].identifier : i \in 1..Len(storedRegions.val)}

\* C9: when removeGeofences or addGeofences fails (rejects, or reports
\* success: false) during updateActiveRegions, the active and the persisted
\* region set after the pass are exactly the regions confirmed registered
\* with the OS.
C9_FailureKeepsConfirmed ==
    [][\A ps \in BagToSet(passes), o \in {"ok", "reject", "unsupported"} :
          ( /\ RemoveGeofencesReply(ps, o) \/ AddGeofencesReply(ps, o)
            /\ BagCardinality(passes') < BagCardinality(passes)
            /\ ps.failed \/ o # "ok" )
          => /\ RegionIds(activeRegions') = osRegistered'
             /\ StoredIds' = osRegistered'
      ]_vars

\* C10: updateLocation re-optimizes only when the new location is more than
\* 1 km from the location of the last optimization; an update nearer to it
\* issues no native add/remove call.
C10_OnlyBeyondOneKm ==
    [][\A p \in Locations :
          ( /\ UpdateLocation(p)
            /\ lastOptLocation.has
            /\ CalculateDistance(p, lastOptLocation.pos) <= 1000 )
          => /\ lastOptLocation' = lastOptLocation
             /\ passes' = passes
      ]_vars


\* C11: once stopTracking has returned (and startTracking was not called
\* since), the region manager's active region set is empty and the OS monitors
\* none of the regions the manager registered.
C11_StopClearsRegions ==
    StopReturned => (activeRegions = <<>> /\ osRegistered = {})


\* C12: once stopTracking has returned (and until startTracking is called
\* again) no timer acts: neither the periodic sync tick nor a pending
\* chain or backoff timer starts a flush, and the periodic optimization timer
\* recomputes no movement profile.
C12_StopCancelsTimers ==
    [][StopReturned =>
          /\ ~(PeriodicTick /\ inflight' # inflight)
          /\ ~(\E t \in BagToSet(timers) : TimerFire(t) /\ inflight' # inflight)
          /\ ~(\E now \in Clocks :
                  PeriodicOptimization(now) /\ movementPattern' # movementPattern)]_vars


C14_DeniedRegistersNothing ==
    [][BackgroundLocation = "denied" =>
          /\ \A ps \in BagToSet(passes') : ps.stage = "adding" => BagIn(ps, passes)
          /\ (trackingStatus'.isActive /\ trackingStatus' # trackingStatus)
                => (trackingStatus'.jsGeofencing /\ ~trackingStatus'.nativeGeofencing)]_vars


\* C15: a rejected createVisit is absorbed: the event stays with its listener
\* (events leave the listener only through its last step), that step appends
\* the event exactly once to the sync queue when cloud sync is enabled and
\* leaves the queue alone otherwise, and events delivered meanwhile or later
\* are taken up as before.
C15_VisitFailureAbsorbed ==
    [][/\ BagCardinality(handling') < BagCardinality(handling)
            => \E e \in BagToSet(handling) : GeofenceEventHandled(e)
       /\ \A e \in BagToSet(handling) :
             (e.visit = "failed" /\ GeofenceEventHandled(e))
                => IF enableCloudSync
                   THEN /\ Len(pendingEvents') = Len(pendingEvents) + 1
                        /\ SubSeq(pendingEvents', 1, Len(pendingEvents)) = pendingEvents
                        /\ pendingEvents'[Len(pendingEvents')] \notin Range(pendingEvents)
                        /\ nEnqueued' = nEnqueued + 1
                   ELSE pendingEvents' = pendingEvents
       /\ (\E e \in BagToSet(handling) : e.visit = "failed")
             => (nDelivered < MaxDelivered
                    => \E sid \in EventStationIds :
                          ENABLED DeliverGeofenceEvent(sid, "enter"))
      ]_vars

\* an event whose createVisit was rejected is about to be queued behind an
\* event queued before it, while a later event waits for its own createVisit
C15_Witness ==
    /\ enableCloudSync
    /\ pendingEvents # <<>>
    /\ \E e \in BagToSet(handling) : e.visit = "failed"
    /\ \E e \in BagToSet(handling) : e.visit = "pending"


\* C16: the registered region set survives a restart: right after the
\* restart the identifiers of the active region set are those persisted
\* before it.
C16_RestartKeepsRegions ==
    [][ProcessRestart => RegionIds(activeRegions') = StoredIds]_vars


\* C17: a persisted entry that is not what the app stored (pending events,
\* location history, configuration) is loaded as if nothing were stored, and
\* the operations that follow behave as from the empty state: an enqueue
\* appends its event and persists the queue, a recorded sample heads the
\* history and is persisted.
C17_CorruptTreatedAsEmpty ==
    [][/\ ProcessRestart =>
             /\ (storage.has /\ ~IsStored(storage)) => pendingEvents' = <<>>
             /\ (storedHistory.has /\ ~IsStored(storedHistory))
                   => locationHistory' = <<>>
             /\ (storedConfig.has /\ ~IsStored(storedConfig))
                   => enableCloudSync' = DefaultConfiguration.enableCloudSync
       /\ nEnqueued' = nEnqueued + 1 =>
             /\ Len(pendingEvents') = Len(pendingEvents) + 1
             /\ storage' = Item(pendingEvents')
       /\ nRecorded' = nRecorded + 1 =>
             /\ Len(locationHistory') = Min(Len(locationHistory) + 1, MAX_LOCATION_HISTORY)
             /\ storedHistory' = SaveLocationHistory(locationHistory')
      ]_vars


\* C18: reconciling a region set against itself issues no plugin call: when
\* an optimization selects regions whose identifiers are those of the active
\* set, no removeGeofences and no addGeofences call is made, the OS
\* registrations stay, and the selection becomes the active set at once.
C18_SelfReconcileNoCalls ==
    [][\A p \in Locations :
          ( /\ lastOptLocation' = At(p)
            /\ RegionIds(NewRegions(p)) = RegionIds(activeRegions)
            /\ UpdateLocation(p) \/ (ForceOptimization /\ currentLocation = At(p)) )
          => /\ passes' = passes
             /\ osRegistered' = osRegistered
             /\ RegionIds(activeRegions') = RegionIds(activeRegions)
      ]_vars

\* an optimization has run where the device is, its regions are active and
\* registered, and selecting again there gives the same identifiers
C18_Witness ==
    /\ currentLocation.has
    /\ lastOptLocation = currentLocation
    /\ passes = EmptyBag
    /\ activeRegions # <<>>
    /\ osRegistered = RegionIds(activeRegions)
    /\ RegionIds(NewRegions(currentLocation.pos)) = RegionIds(activeRegions)


\* C19: no movement pattern is published (the value stays null) while the
\* history holds fewer than 10 samples, and the updateLocation call that
\* records the 10th sample publishes one.
C19_PatternFromTenthSample ==
    /\ [](Len(locationHistory) < MIN_PATTERN_SAMPLES => ~movementPattern.has)
    /\ [][(nRecorded' = nRecorded + 1 /\ Len(locationHistory') = MIN_PATTERN_SAMPLES)
             => (~movementPattern.has /\ movementPattern'.has)]_vars

\* the 10th sample has just been recorded and a pattern is published
C19_Witness ==
    /\ nRecorded > 0
    /\ Len(locationHistory) = MIN_PATTERN_SAMPLES
    /\ movementPattern.has

\* C20: the history in memory holds at most 1000 samples, newest first; an
\* updateLocation call puts its sample at index 0 and drops the oldest one
\* beyond 1000; the persisted history is the first min(200, length) samples.
C20_HistoryBounded ==
    /\ [](/\ Len(locationHistory) <= MAX_LOCATION_HISTORY
          /\ \A i \in 1..(Len(locationHistory) - 1) :
                locationHistory[i].t > locationHistory[i + 1].t
          /\ LoadLocationHistory(storedHistory, <<>>)
                = Slice0(locationHistory, PERSISTED_HISTORY))
    /\ [][nRecorded' = nRecorded + 1 =>
             /\ locationHistory' # <<>>
             /\ SubSeq(locationHistory', 2, Len(locationHistory'))
                   = Slice0(locationHistory, MAX_LOCATION_HISTORY - 1)]_vars

\* the history is full, its oldest sample was dropped for a new one, and 200
\* samples are persisted
C20_Witness ==
    /\ nRecorded = MaxRecorded
    /\ Len(locationHistory) = MAX_LOCATION_HISTORY
    /\ storedHistory.has
    /\ Len(storedHistory.val) = PERSISTED_HISTORY


\* C21: isInsideStation never throws, and for a station whose polygon data is
\* absent, unparseable, or not a Polygon with an outer ring the answer is
\* exactly whether the point is within 100 m of the station centre; a point
\* at the station's own coordinates is then inside.
C21_FallbackToCircle ==
    probe.has =>
        /\ ~probe.result.threw
        /\ probe.station.polygon_data.text \in RinglessTexts =>
              /\ probe.result.inside
                    = (DistanceSquared(probe.point, probe.station.at) <= 100 * 100)
              /\ probe.point = probe.station.at => probe.result.inside

\* a station without polygon data was probed 100 m from its centre
\* (60 m east, 80 m south) and found inside
C21_Witness ==
    /\ probe.has
    /\ probe.station.polygon_data.text = "undefined"
    /\ probe.point = Point(probe.station.at.x + 60, probe.station.at.y - 80)
    /\ probe.result.inside


\* C23: the platform capacity is a configuration input: once
\* updateConfiguration({maxRegions: k}) has run, no optimization started
\* later produces more than k geofence regions.
C23_CapacityConfigured ==
    [][\A p \in FarLocations :
          UpdateLocation(p) =>
            /\ \A ps \in BagToSet(passes') :
                  ~BagIn(ps, passes) => Len(ps.newRegions) <= configuredMaxRegions
            /\ activeRegions' # activeRegions
                  => Len(activeRegions') <= configuredMaxRegions
      ]_vars


\* C24: a transition to offline only updates the status: isOnline becomes
\* false, and the pending queue, the persisted queue, syncErrors,
\* totalEventsSynced, the flushes in flight and the timers stay as they are
\* (no flush is started).
C24_OfflineOnlyStatus ==
    [][NetworkOffline =>
          /\ ~syncStatus'.isOnline
          /\ syncStatus' = [syncStatus EXCEPT !.isOnline = FALSE]
          /\ pendingEvents' = pendingEvents
          /\ storage' = storage
          /\ inflight' = inflight
          /\ timers' = timers
      ]_vars

\* the device went offline with events queued and a flush still in flight
C24_Witness ==
    /\ ~navOnline
    /\ ~syncStatus.isOnline
    /\ Len(pendingEvents) > 0
    /\ storage = Item(pendingEvents)
    /\ inflight # EmptyBag


\* C25: every batch a performSync sends is the prefix of the pending queue at
\* the moment the flush starts, of length min(50, queue length): the events
\* go oldest first in enqueue order and no batch holds more than 50 events.
C25_BatchIsOldestPrefix ==
    [][\A f \in BagToSet(inflight') :
          CopiesIn(f, inflight') > CopiesIn(f, inflight) =>
            /\ Len(f.batch) = Min(50, Len(pendingEvents'))
            /\ Len(f.batch) <= 50
            /\ \A i \in 1..Len(f.batch) : f.batch[i] = pendingEvents'[i]
            /\ \A i \in 1..Len(f.batch) : \A j \in 1..Len(pendingEvents') :
                  i < j => f.batch[i] < pendingEvents'[j]
      ]_vars

\* a flush of exactly 50 events is in flight while 52 events are queued
C25_Witness ==
    /\ Len(pendingEvents) = 52
    /\ \E f \in BagToSet(inflight) :
          /\ Len(f.batch) = 50
          /\ f.batch = SubSeq(pendingEvents, 1, 50)


\* C26: the pending queue is durable: the persisted queue equals the pending
\* queue in memory, so a restart with no flush in flight reloads exactly the
\* events that were neither acknowledged nor cleared.
C26_DurableQueue ==
    /\ LoadPendingEvents(storage) = pendingEvents
    /\ inflight = EmptyBag =>
          Range(LoadPendingEvents(storage)) = (1..(nextId - 1)) \ (acked \cup cleared)


\* C27: at most one flush is in flight at any time: no performSync starts
\* while another one is awaiting its response, so no event is contained in
\* two batches that are outstanding together.
C27_SingleFlight ==
    /\ BagCardinality(inflight) <= 1
    /\ \A f \in BagToSet(inflight) : \A g \in BagToSet(inflight) :
          f # g => Range(f.batch) \cap Range(g.batch) = {}


\* C28: when a second optimization pass starts while the first still awaits
\* the plugin, then after both passes have completed with every plugin call
\* succeeding, the region identifiers registered with the OS are those of
\* the active region set.
C28_OverlapKeepsOsInStep ==
    (isInitialized /\ passes = EmptyBag) => osRegistered = RegionIds(activeRegions)


\* C30: after any sequence of processed location updates the active region
\* set was computed from a location within 1 km of the current location:
\* moves of less than 1 km each do not carry the device 1 km or more away from
\* the point of the last optimization.
C30_OptimizedNearby ==
    (currentLocation.has /\ lastOptLocation.has /\ passes = EmptyBag)
        => CalculateDistance(currentLocation.pos, lastOptLocation.pos) < 1000


\* C29: in both polling detectors the events emitted for a station, and for
\* a region monitored with entry and exit notification on, alternate enter,
\* exit, enter, ... starting with enter, whatever positions are processed
\* one after another.
C29_PollingAlternates ==
    /\ \A i \in 1..Len(geoStations) :
          LET mine == SelectSeq(geofenceEvents,
                                LAMBDA e : e.station = geoStations[i].id)
          IN \A k \in 1..Len(mine) :
                mine[k].type = IF k % 2 = 1 THEN "enter" ELSE "exit"
    /\ \A id \in RegionIdentifiers :
          regionLog[id].notified =>
             \A k \in 1..Len(regionLog[id].events) :
                regionLog[id].events[k] = IF k % 2 = 1 THEN "enter" ELSE "exit"

\* station 1 was entered, left and entered again under the web detector, and
\* so was region 2 under the Android detector
C29_Witness ==
    /\ SelectSeq(geofenceEvents, LAMBDA e : e.station = 1)
           = <<StationEvent(1, "enter"), StationEvent(1, "exit"),
               StationEvent(1, "enter")>>
    /\ regionLog[2].notified
    /\ regionLog[2].events = <<"enter", "exit", "enter">>
    /\ 2 \in prefsEnteredRegions


\* C31: initialize is idempotent under concurrent invocation: the plugin
\* listeners are registered once, so each event the OS delivers runs the
\* 'geofenceEvent' listener exactly once.
C31_ListenersOnce ==
    [][/\ nListeners' <= 1
       /\ \A sid \in VisitStationIds, action \in {"enter", "exit"} :
             OsGeofenceEvent(sid, action)
                => BagCardinality(handling') = BagCardinality(handling) + 1
      ]_vars

\* C32: the published tracking status is always native, polling fallback or
\* disabled: nativeGeofencing and jsGeofencing are never both true, isActive
\* holds exactly when one of them does, and backgroundMode equals
\* nativeGeofencing
C32_StatusModes ==
    /\ ~(trackingStatus.nativeGeofencing /\ trackingStatus.jsGeofencing)
    /\ trackingStatus.isActive
          <=> (trackingStatus.nativeGeofencing \/ trackingStatus.jsGeofencing)
    /\ trackingStatus.backgroundMode <=> trackingStatus.nativeGeofencing

C32_Witness ==
    /\ lastCall = "restart"
    /\ bridge = <<>>
    /\ trackingStatus.isActive
    /\ trackingStatus.jsGeofencing

\* C33: once a stopTracking call of GeolocationService has returned, made
\* after every startTracking call had returned and with none made since,
\* position callbacks emit no further geofence event
C33_QuietAfterStop ==
    [][stopCompleted => geofenceEvents' = geofenceEvents]_vars

\* C34: every startGeofencing and requestPermissions call made to the iOS
\* plugin is answered in the end, a call made while another is pending
\* included
C34_EveryCallAnswered ==
    \A i \in 1..MaxPluginCalls :
       (i <= Len(pluginCalls))
          ~> (i <= Len(pluginCalls) /\ pluginCalls[i].answers >= 1)

\* C35: GeofenceWorker runs that overlap broadcast a single 'enter' for a
\* region the device has entered: the actions broadcast for a region
\* monitored with both notifications on never repeat one after the other
C35_OneEnterPerEntry ==
    \A id \in RegionIdentifiers :
       regionLog[id].notified =>
          \A k \in 1..(Len(regionLog[id].events) - 1) :
             regionLog[id].events[k] # regionLog[id].events[k + 1]

\* C36: BackgroundGeofenceService.activeRegions lists every region the
\* service has registered with the OS and not removed since, regions added
\* for an earlier location included
C36_ActiveRegionsComplete == bgRegistered \subseteq bgActiveRegions

\* C37: the distance component of a candidate's score is 100 up to 500 m, 80
\* up to 1000 m, 60 up to 2000 m, 40 up to 5000 m and 20 beyond, taken at 40%
\* when a movement pattern is given and in full otherwise
C37_DistanceComponent ==
    (probe.has /\ probe.call \in {"calculateStationScore", "prioritizeStations"})
       => LET tier == IF probe.distance <= 500 THEN 100
                      ELSE IF probe.distance <= 1000 THEN 80
                      ELSE IF probe.distance <= 2000 THEN 60
                      ELSE IF probe.distance <= 5000 THEN 40
                      ELSE 20
          IN probe.term = IF probe.pattern.has THEN (2 * tier) \div 5 ELSE tier

\* C38: above 20 m/s the context filter returns the top 70%, by count, of
\* the candidates scoring 50 or more
C38_TopSeventyPercent ==
    (/\ probe.has
     /\ probe.call = "applyContextFiltering"
     /\ probe.pattern.has
     /\ probe.pattern.averageSpeed > 20)
       => LET scoring == SelectSeq(probe.candidates, LAMBDA it : it.score >= 50)
          IN probe.kept = SubSeq(scoring, 1, (7 * Len(scoring)) \div 10)

\* C39: without polygon data the radius is 80 m up to 500 m from the user,
\* 100 up to 1000 m, 120 up to 2000 m, 150 up to 5000 m and 200 beyond, plus
\* 50 m under fast movement, minus 20 m when nearly stationary, and at least
\* 50 m
C39_FallbackRadius ==
    (probe.has /\ probe.call \in {"calculateDynamicRadius", "calculateOptimalRadius"})
       => LET tier == IF probe.distance <= 500 THEN 80
                      ELSE IF probe.distance <= 1000 THEN 100
                      ELSE IF probe.distance <= 2000 THEN 120
                      ELSE IF probe.distance <= 5000 THEN 150
                      ELSE 200
              adjusted == IF probe.pattern.has /\ probe.pattern.averageSpeed > 15
                          THEN tier + 50
                          ELSE IF probe.pattern.has /\ probe.pattern.averageSpeed < 1
                          THEN tier - 20
                          ELSE tier
          IN probe.value = Max(adjusted, 50)

\* C40: the average speed of the pattern is the mean of distance over time
\* of the consecutive pairs among the 50 most recent samples whose time
\* delta is above 0 and at most 600 seconds and whose speed is below
\* 50 m/s, and 0 when no pair qualifies (in whole metres per second)
C40_AverageSpeed ==
    movementPattern.has =>
       LET recent == Slice0(locationHistory, RECENT_LOCATIONS)
           Timed(i) == recent[i - 1].t - recent[i].t
           Moved(i) == CalculateDistance(recent[i - 1].pos, recent[i].pos)
           Qualifies(i) == /\ Timed(i) > 0
                           /\ Timed(i) <= 600
                           /\ Moved(i) < 50 * Timed(i)
           RECURSIVE Total(_)
           Total(n) == IF n < 2 THEN 0
                       ELSE (IF Qualifies(n) THEN (1000 * Moved(n)) \div Timed(n)
                             ELSE 0) + Total(n - 1)
           samples == Cardinality({i \in 2..Len(recent) : Qualifies(i)})
       IN movementPattern.averageSpeed =
             IF samples > 0 THEN (Total(Len(recent)) \div samples) \div 1000 ELSE 0

====
